---- MODULE Spec2Model ----
(***************************************************************************)
(* Model of scripts/process_famus.py: normalisation of the two FAMuS       *)
(* annotation schemas (span tuples of version 1.0, templates of version    *)
(* 1.1), the version difference check, the unified record and main() over  *)
(* a corpus; and of create_hierarchy_index of scripts/process_ontology.py. *)
(*                                                                         *)
(* Encoding of Python values                                               *)
(*   str used as text      sequence of one-character strings               *)
(*   str used as a name    TLA+ string (role, label, frame, definition)    *)
(*   list / tuple          sequence                                        *)
(*   dict (unordered use)  function from string keys (a record)            *)
(*   dict (iterated)       sequence of <<key, value>> pairs, in insertion  *)
(*                         order, keys distinct                            *)
(*   None                  None == <<>>; an int that may be None is held   *)
(*                         as Some(n) == <<n>>                             *)
(*   a raised exception    a ..._raises predicate beside the value operator*)
(*                                                                         *)
(* Specifications: one run of main() over an instance pair, the pair drawn *)
(* from the offsets inputs (SpecOffsets), the span-tuple inputs            *)
(* (SpecSpanTuple), the template inputs (SpecTemplate), the inputs of the  *)
(* difference check (SpecDiff) or pairs with an ontology (SpecOntology);   *)
(* one run of main() over a corpus of several instances (SpecCorpus); one  *)
(* call of create_hierarchy_index (SpecHierarchy, SpecHierarchyFair).      *)
(* The run over a corpus holds the loop's current instance, its two        *)
(* normalized versions and its unified record in the variables of the run  *)
(* over a pair; otherwise the variables of the other runs stay as they     *)
(* start.                                                                  *)
(***************************************************************************)
EXTENDS Integers, Sequences, FiniteSets, TLC

VARIABLES
    pc,              \* position of the running script
    ontology,        \* load_ontology(): frames table, or None
    instance10,      \* raw FAMuS 1.0 instance (a json.loads line)
    instance11,      \* raw FAMuS 1.1 instance (an element of json.load)
    v10_data,        \* process_famus_10_instance(instance10, ontology), or None
    v11_data,        \* process_famus_11_instance(instance11, ontology), or None
    char_positions,  \* convert_template's local char_positions for the report tokens
    trigger_positions, \* extract_trigger_11's local char_positions, None if not computed
    unified          \* create_unified_instance(...) record, or None

\* process_ontology.py, create_hierarchy_index
VARIABLES
    frames,          \* the ontology table: <<frame_name, frame_data>> in insertion order
    frame_pos,       \* number of frames the loop of create_hierarchy_index has taken
    hierarchy,       \* the hierarchy dict while the loop fills it: roots, and the
                     \* defaultdict(set)s children and parents
    hierarchy_index  \* the dict create_hierarchy_index returns, None before

\* main() over a corpus
VARIABLES
    lines10,         \* the lines of train.jsonl, dev.jsonl and test.jsonl in the
                     \* order main() reads them: <<split, line>>, where line is
                     \* Some(json.loads(line)), or None for a blank line
    data11,          \* the json.load(f) lists of train.json, dev.json and
                     \* test.json, one after the other
    pos,             \* number of elements the current loop of main() has taken
    v10_instances,   \* dict instance_id -> {data, frame, split}, in insertion order
    v11_instances,   \* dict instance_id -> process_famus_11_instance(...)
    unified_instances,          \* the output list
    instances_with_differences, \* the counter of main()
    metadata         \* the metadata dict, or None

hierarchy_vars == <<frames, frame_pos, hierarchy, hierarchy_index>>

corpus_vars == <<lines10, data11, pos, v10_instances, v11_instances,
                 unified_instances, instances_with_differences, metadata>>

vars == <<pc, ontology, instance10, instance11, v10_data, v11_data,
          char_positions, trigger_positions, unified, hierarchy_vars, corpus_vars>>

---------------------------------------------------------------------------
(* Python values *)

None == <<>>

Some(n) == <<n>>

\* dict.get(k, default)
Get(d, k, default) == IF k \in DOMAIN d THEN d[k] ELSE default

\* list[k] with Python's negative indices; IndexError outside -len .. len-1
IndexRaises(list, k) == k >= Len(list) \/ k < 0 - Len(list)

Index(list, k) == IF k >= 0 THEN list[k + 1] ELSE list[Len(list) + k + 1]

\* ' '.join(tokens)
RECURSIVE Join(_)
Join(tokens) ==
    IF Len(tokens) = 0 THEN <<>>
    ELSE IF Len(tokens) = 1 THEN tokens[1]
    ELSE tokens[1] \o <<" ">> \o Join(Tail(tokens))

\* list[lo : hi], with Python's clamping and negative indices
PySlice(list, lo, hi) ==
    LET Norm(x) == IF x < 0 THEN (IF x + Len(list) < 0 THEN 0 ELSE x + Len(list))
                   ELSE (IF x > Len(list) THEN Len(list) ELSE x)
        from == Norm(lo)
        to   == Norm(hi)
    IN  IF to <= from THEN <<>> ELSE [i \in 1..(to - from) |-> list[from + i]]

\* text[a : b + 1], the substring at the inclusive span [a, b]
Substring(text, a, b) == PySlice(text, a, b + 1)

\* [f(x) for x in list]
MapSeq(list, F(_)) == [i \in 1..Len(list) |-> F(list[i])]

\* concatenation of a list of lists
RECURSIVE Flatten(_)
Flatten(lists) ==
    IF Len(lists) = 0 THEN <<>> ELSE lists[1] \o Flatten(Tail(lists))

\* the elements of a list
Range(list) == {list[i] : i \in 1..Len(list)}

---------------------------------------------------------------------------
(* normalize_annotation, normalize_trigger *)

normalize_annotation(annotation) ==
    [text            |-> Get(annotation, "text", <<>>),
     span            |-> Get(annotation, "span", <<0, 0>>),
     token_span      |-> Get(annotation, "token_span", <<0, 0>>),
     role            |-> Get(annotation, "role", ""),
     label           |-> Get(annotation, "label", Get(annotation, "role", "")),
     role_definition |-> Get(annotation, "role_definition", "")]

normalize_trigger(trigger) ==
    IF trigger = None THEN None
    ELSE [text        |-> Get(trigger, "text", <<>>),
          start_char  |-> Get(trigger, "start_char", Some(0)),
          end_char    |-> Get(trigger, "end_char", Some(0)),
          start_token |-> Get(trigger, "start_token", Some(0)),
          end_token   |-> Get(trigger, "end_token", Some(0)),
          frame       |-> Get(trigger, "frame", "")]

---------------------------------------------------------------------------
(* annotations_differ, triggers_differ, versions_differ *)

\* the (role, text, tuple(span)) tuples of an annotation list
annotation_set(ann_list) ==
    {<<ann_list[i].role, ann_list[i].text, Get(ann_list[i], "span", <<>>)>> :
        i \in 1..Len(ann_list)}

\* mutant: only the first list's annotations are looked for in the second
annotations_differ_one_sided(ann1_list, ann2_list) ==
    IF Len(ann1_list) # Len(ann2_list) THEN TRUE
    ELSE ~(annotation_set(ann1_list) \subseteq annotation_set(ann2_list))

annotations_differ(ann1_list, ann2_list) ==
    IF Len(ann1_list) # Len(ann2_list) THEN TRUE
    ELSE annotation_set(ann1_list) # annotation_set(ann2_list)

\* mutant: a trigger that only one version has is not a difference
triggers_differ_both_present(trigger1, trigger2) ==
    IF trigger1 = None \/ trigger2 = None THEN FALSE
    ELSE \/ trigger1.text # trigger2.text
         \/ trigger1.start_char # trigger2.start_char
         \/ trigger1.end_char # trigger2.end_char

triggers_differ(trigger1, trigger2) ==
    IF (trigger1 = None) # (trigger2 = None) THEN TRUE
    ELSE IF trigger1 = None THEN FALSE
    ELSE \/ trigger1.text # trigger2.text
         \/ trigger1.start_char # trigger2.start_char
         \/ trigger1.end_char # trigger2.end_char

\* mutant: the source documents are not compared
versions_differ_report_only(v1_0, v1_1) ==
    IF annotations_differ(v1_0.report.annotations, v1_1.report.annotations) THEN TRUE
    ELSE IF triggers_differ(v1_0.report.trigger, v1_1.report.trigger) THEN TRUE
    ELSE FALSE

versions_differ(v1_0, v1_1) ==
    IF annotations_differ(v1_0.report.annotations, v1_1.report.annotations) THEN TRUE
    ELSE IF annotations_differ(v1_0.source.annotations, v1_1.source.annotations) THEN TRUE
    ELSE IF triggers_differ(v1_0.report.trigger, v1_1.report.trigger) THEN TRUE
    ELSE IF triggers_differ(v1_0.source.trigger, v1_1.source.trigger) THEN TRUE
    ELSE FALSE

---------------------------------------------------------------------------
(* Ontology enrichment, shared by both process_famus_*_instance *)

\* mutant: the definitions are taken from the frame's core roles
enrich_core_roles(annotations, ontology_, frame_name) ==
    IF ontology_ # None /\ frame_name \in DOMAIN ontology_
    THEN LET all_roles == Get(ontology_[frame_name], "core_roles", <<>>)
             Enrich(ann) ==
                 IF ann.role \in DOMAIN all_roles
                 THEN ann @@ ("role_definition" :> all_roles[ann.role])
                 ELSE ann
         IN  MapSeq(annotations, Enrich)
    ELSE annotations

\* ann['role_definition'] = all_roles[ann['role']] for the roles of the frame's table
enrich(annotations, ontology_, frame_name) ==
    IF ontology_ # None /\ frame_name \in DOMAIN ontology_
    THEN LET all_roles == Get(ontology_[frame_name], "all_roles", <<>>)
             Enrich(ann) ==
                 IF ann.role \in DOMAIN all_roles
                 THEN ann @@ ("role_definition" :> all_roles[ann.role])
                 ELSE ann
         IN  MapSeq(annotations, Enrich)
    ELSE annotations

---------------------------------------------------------------------------
(* process_famus_10_instance: the span-tuple variant *)

RoleSpansKey == "role-spans-indices-in-all-spans"

\* the annotations of one role's spans_list
convert_spans_list(role, spans_list) ==
    LET kept == SelectSeq(spans_list, LAMBDA span_info : Len(span_info) >= 6)
        Convert(span_info) ==
            [text       |-> span_info[1],
             span       |-> <<span_info[2], span_info[3]>>,
             token_span |-> <<span_info[4], span_info[5]>>,
             role       |-> role,
             label      |-> IF span_info[6] # "" THEN span_info[6] ELSE role]
    IN  MapSeq(kept, Convert)

\* mutant: the structural key is converted like a role
convert_role_annotations_no_skip(role_dict) ==
    Flatten(MapSeq(role_dict, LAMBDA item : convert_spans_list(item[1], item[2])))

convert_role_annotations(role_dict) ==
    LET OfItem(item) ==
            IF item[1] = RoleSpansKey THEN <<>>
            ELSE convert_spans_list(item[1], item[2])
    IN  Flatten(MapSeq(role_dict, OfItem))

\* mutant: the trigger tuple is held to the six elements of a span tuple
extract_trigger_six(text_dict, frame_name) ==
    LET trigger_span == Get(text_dict, "frame-trigger-span", None)
    IN  IF trigger_span = None \/ Len(trigger_span) < 6 THEN None
        ELSE [text        |-> trigger_span[1],
              start_char  |-> Some(trigger_span[2]),
              end_char    |-> Some(trigger_span[3]),
              start_token |-> Some(trigger_span[4]),
              end_token   |-> Some(trigger_span[5]),
              frame       |-> frame_name]

extract_trigger(text_dict, frame_name) ==
    LET trigger_span == Get(text_dict, "frame-trigger-span", None)
    IN  IF trigger_span = None \/ Len(trigger_span) < 5 THEN None
        ELSE [text        |-> trigger_span[1],
              start_char  |-> Some(trigger_span[2]),
              end_char    |-> Some(trigger_span[3]),
              start_token |-> Some(trigger_span[4]),
              end_token   |-> Some(trigger_span[5]),
              frame       |-> frame_name]

process_famus_10_instance(instance, ontology_) ==
    LET frame_name  == Get(instance, "frame", "")
        report_dict == Get(instance, "report_dict", <<>>)
        source_dict == Get(instance, "source_dict", <<>>)
        Document(text_dict) ==
            [text        |-> Get(text_dict, "doctext", <<>>),
             annotations |->
                 MapSeq(enrich(convert_role_annotations(
                                   Get(text_dict, "role_annotations", <<>>)),
                               ontology_, frame_name),
                        normalize_annotation),
             trigger     |-> normalize_trigger(extract_trigger(text_dict, frame_name))]
    IN  [report |-> Document(report_dict), source |-> Document(source_dict)]

---------------------------------------------------------------------------
(* process_famus_11_instance: the template variant *)

\* convert_template's loop: char_positions, the start offset of every token
RECURSIVE calc_char_positions_loop(_, _, _, _)
calc_char_positions_loop(tokens, i, current_pos, positions) ==
    IF i >= Len(tokens) THEN positions
    ELSE LET after_token == current_pos + Len(tokens[i + 1])
         IN  calc_char_positions_loop(
                 tokens, i + 1,
                 IF i < Len(tokens) - 1 THEN after_token + 1 ELSE after_token,
                 Append(positions, current_pos))

\* mutant: the joining space is not counted
RECURSIVE calc_char_positions_no_space(_)
calc_char_positions_no_space(tokens) ==
    IF Len(tokens) = 0 THEN <<>>
    ELSE LET front == SubSeq(tokens, 1, Len(tokens) - 1)
             before == calc_char_positions_no_space(front)
         IN  Append(before,
                    IF Len(front) = 0 THEN 0
                    ELSE before[Len(front)] + Len(front[Len(front)]))

calc_char_positions(tokens) == calc_char_positions_loop(tokens, 0, 0, <<>>)

\* mutant: the last token's span ends one past its last character
char_span_last_exclusive(tokens, positions, start_token, end_token) ==
    <<Index(positions, start_token),
      IF end_token < Len(tokens) - 1
      THEN Index(positions, end_token + 1) - 2
      ELSE Index(positions, end_token) + Len(Index(tokens, end_token))>>

\* mutant: a span before the last token ends on the joining space
char_span_on_space(tokens, positions, start_token, end_token) ==
    <<Index(positions, start_token),
      IF end_token < Len(tokens) - 1
      THEN Index(positions, end_token + 1) - 1
      ELSE Index(positions, end_token) + Len(Index(tokens, end_token)) - 1>>

\* the char span of (start_token, end_token), once both index the positions
char_span(tokens, positions, start_token, end_token) ==
    <<Index(positions, start_token),
      IF end_token < Len(tokens) - 1
      THEN Index(positions, end_token + 1) - 2
      ELSE Index(positions, end_token) + Len(Index(tokens, end_token)) - 1>>

\* the list accesses of char_span that raise IndexError
char_span_raises(tokens, positions, start_token, end_token) ==
    \/ IndexRaises(positions, start_token)
    \/ IF end_token < Len(tokens) - 1
       THEN IndexRaises(positions, end_token + 1)
       ELSE IndexRaises(positions, end_token) \/ IndexRaises(tokens, end_token)

\* one argument that has both token indices
convert_argument(role, arg, tokens, positions) ==
    LET arg_tokens  == Get(arg, "tokens", <<>>)
        text        == IF arg_tokens # <<>> THEN Join(arg_tokens) ELSE <<>>
        start_token == arg.start_token
        end_token   == arg.end_token
    IN  [text       |-> text,
         span       |-> IF start_token < Len(positions) /\ end_token < Len(positions)
                        THEN char_span(tokens, positions, start_token, end_token)
                        ELSE <<0, Len(text)>>,
         token_span |-> <<start_token, end_token>>,
         role       |-> role,
         label      |-> role]

convert_argument_raises(arg, tokens, positions) ==
    /\ arg.start_token < Len(positions) /\ arg.end_token < Len(positions)
    /\ char_span_raises(tokens, positions, arg.start_token, arg.end_token)

\* the arguments convert_template converts, as <<role, arg>>, in iteration order
template_arguments(template_dict) ==
    LET OfItem(item) ==
            IF "arguments" \in DOMAIN item[2]
            THEN MapSeq(SelectSeq(item[2].arguments,
                                  LAMBDA arg : /\ "start_token" \in DOMAIN arg
                                               /\ "end_token" \in DOMAIN arg),
                        LAMBDA arg : <<item[1], arg>>)
            ELSE <<>>
    IN  Flatten(MapSeq(template_dict, OfItem))

convert_template(template_dict, tokens) ==
    LET positions == calc_char_positions(tokens)
    IN  MapSeq(template_arguments(template_dict),
               LAMBDA ra : convert_argument(ra[1], ra[2], tokens, positions))

convert_template_raises(template_dict, tokens) ==
    LET positions == calc_char_positions(tokens)
        converted == template_arguments(template_dict)
    IN  \E i \in 1..Len(converted) :
            convert_argument_raises(converted[i][2], tokens, positions)

\* extract_trigger_11's own copy of the loop
RECURSIVE trigger_char_positions_loop(_, _, _, _)
trigger_char_positions_loop(tokens, i, current_pos, positions) ==
    IF i >= Len(tokens) THEN positions
    ELSE LET after_token == current_pos + Len(tokens[i + 1])
         IN  trigger_char_positions_loop(
                 tokens, i + 1,
                 IF i < Len(tokens) - 1 THEN after_token + 1 ELSE after_token,
                 Append(positions, current_pos))

trigger_char_positions(tokens) == trigger_char_positions_loop(tokens, 0, 0, <<>>)

\* trigger_dict.get('start_token'): None for a missing key
get_index(trigger_dict, key) ==
    IF key \in DOMAIN trigger_dict THEN Some(trigger_dict[key]) ELSE None

\* the guard of extract_trigger_11's span computation
trigger_span_computed(trigger_dict, positions) ==
    /\ get_index(trigger_dict, "start_token") # None
    /\ get_index(trigger_dict, "end_token") # None
    /\ trigger_dict.start_token < Len(positions)

trigger_char_span(tokens, positions, start_token, end_token) ==
    <<Index(positions, start_token),
      IF end_token < Len(tokens) - 1
      THEN Index(positions, end_token + 1) - 2
      ELSE Index(positions, end_token) + Len(Index(tokens, end_token)) - 1>>

extract_trigger_11(trigger_dict, tokens) ==
    IF trigger_dict = <<>> THEN None
    ELSE LET positions == trigger_char_positions(tokens)
             computed  == trigger_span_computed(trigger_dict, positions)
             span      == trigger_char_span(tokens, positions,
                                            trigger_dict.start_token,
                                            trigger_dict.end_token)
         IN  [text        |-> Join(Get(trigger_dict, "tokens", <<>>)),
              start_char  |-> IF computed THEN Some(span[1]) ELSE None,
              end_char    |-> IF computed THEN Some(span[2]) ELSE None,
              start_token |-> get_index(trigger_dict, "start_token"),
              end_token   |-> get_index(trigger_dict, "end_token"),
              frame       |-> Get(trigger_dict, "frame", "")]

extract_trigger_11_raises(trigger_dict, tokens) ==
    /\ trigger_dict # <<>>
    /\ LET positions == trigger_char_positions(tokens)
       IN  /\ trigger_span_computed(trigger_dict, positions)
           /\ char_span_raises(tokens, positions,
                               trigger_dict.start_token, trigger_dict.end_token)

process_famus_11_instance(instance, ontology_) ==
    LET trigger_data  == Get(instance, "trigger", <<>>)
        frame_name    == Get(trigger_data, "frame", "")
        report_tokens == Get(instance, "report", <<>>)
        source_tokens == Get(instance, "source", <<>>)
        Annotations(template_dict, tokens) ==
            MapSeq(enrich(convert_template(template_dict, tokens),
                          ontology_, frame_name),
                   normalize_annotation)
    IN  [report |->
             [text        |-> Join(report_tokens),
              annotations |-> Annotations(Get(instance, "report_template", <<>>),
                                          report_tokens),
              trigger     |-> normalize_trigger(
                                  extract_trigger_11(trigger_data, report_tokens))],
         source |->
             [text        |-> Join(source_tokens),
              annotations |-> Annotations(Get(instance, "source_template", <<>>),
                                          source_tokens),
              trigger     |-> normalize_trigger(None)]]

\* an IndexError of convert_template or extract_trigger_11 leaves the function
process_famus_11_instance_raises(instance) ==
    \/ convert_template_raises(Get(instance, "report_template", <<>>),
                               Get(instance, "report", <<>>))
    \/ extract_trigger_11_raises(Get(instance, "trigger", <<>>),
                                 Get(instance, "report", <<>>))
    \/ convert_template_raises(Get(instance, "source_template", <<>>),
                               Get(instance, "source", <<>>))

---------------------------------------------------------------------------
(* create_unified_instance *)

\* mutant: frame_descendants is read from 'ancestors'
create_unified_instance_ancestors_twice(instance_id, frame, v10, v11, ontology_) ==
    LET known      == ontology_ # None /\ frame \in DOMAIN ontology_
        frame_data == ontology_[frame]
    IN  [instance_id       |-> instance_id,
         frame             |-> frame,
         frame_gloss       |-> "",
         frame_definition  |-> IF known THEN Get(frame_data, "definition", "") ELSE "",
         frame_ancestors   |-> IF known THEN Get(frame_data, "ancestors", <<>>) ELSE <<>>,
         frame_descendants |-> IF known THEN Get(frame_data, "ancestors", <<>>) ELSE <<>>,
         has_differences   |-> versions_differ(v10, v11),
         v1_0              |-> v10,
         v1_1              |-> v11]

create_unified_instance(instance_id, frame, v10, v11, ontology_) ==
    LET known      == ontology_ # None /\ frame \in DOMAIN ontology_
        frame_data == ontology_[frame]
    IN  [instance_id       |-> instance_id,
         frame             |-> frame,
         frame_gloss       |-> "",
         frame_definition  |-> IF known THEN Get(frame_data, "definition", "") ELSE "",
         frame_ancestors   |-> IF known THEN Get(frame_data, "ancestors", <<>>) ELSE <<>>,
         frame_descendants |-> IF known THEN Get(frame_data, "descendants", <<>>) ELSE <<>>,
         has_differences   |-> versions_differ(v10, v11),
         v1_0              |-> v10,
         v1_1              |-> v11]

---------------------------------------------------------------------------
(* Inputs: the raw instances the specifications draw from *)

MaxTokens == 4

\* sequences over S of length at most n
SeqsUpTo(S, n) == UNION {[1..k -> S] : k \in 0..n}

Vocabulary ==
    {<<>>, <<"T", "h", "e">>, <<"d", "o", "g">>, <<"r", "a", "n">>,
     <<"f", "a", "s", "t">>}

TokenSeqs == SeqsUpTo(Vocabulary, MaxTokens)

\* a FAMuS 1.0 instance without annotations or triggers
PlainInstance10 ==
    [instance_id |-> "id1", frame |-> "Attack",
     report_dict |-> [doctext |-> <<>>, role_annotations |-> <<>>],
     source_dict |-> [doctext |-> <<>>, role_annotations |-> <<>>]]

\* a FAMuS 1.1 instance over `tokens` with one argument and the trigger at the
\* token span (s, e), in range or just outside it; their tokens are the
\* document's tokens[s : e + 1]
OffsetInstances11 ==
    {[instance_id     |-> "id1",
      report          |-> tokens,
      source          |-> <<>>,
      report_template |->
          << <<"Agent",
               [arguments |-> <<[start_token |-> s, end_token |-> e,
                                 tokens |-> PySlice(tokens, s, e + 1)]>>]>> >>,
      source_template |-> <<>>,
      trigger         |->
          [frame |-> "Attack", start_token |-> s, end_token |-> e,
           tokens |-> PySlice(tokens, s, e + 1)]] :
        <<tokens, s, e>> \in
            UNION {{t} \X (-1..Len(t)) \X (-1..Len(t)) : t \in TokenSeqs}}

MaxSpans == 2

\* well-formed span tuples (text, start_char, end_char, start_token, end_token,
\* label) of a document "a bc", one of them with a seventh element
SpanA == <<<<"a">>, 0, 0, 0, 0, "">>

SpanAPerp == <<<<"a">>, 0, 0, 0, 0, "Perp">>

SpanBC == <<<<"b", "c">>, 2, 3, 1, 1, "Victim", 7>>

\* malformed span tuples: no label, and no elements
SpanShort == <<<<"b", "c">>, 2, 3, 1, 1>>

SpanInfos == {SpanA, SpanAPerp, SpanBC, SpanShort, <<>>}

SpansLists == SeqsUpTo(SpanInfos, MaxSpans)

\* role_annotations dicts: one role with any spans list, alone or beside the
\* structural key and a second role, in several insertion orders
RoleDicts10 ==
    LET small == {<<>>, <<SpanAPerp>>, <<SpanShort>>}
    IN  {<<>>}
        \cup {<<<<key, spans>>>> : key \in {"Agent", RoleSpansKey}, spans \in SpansLists}
        \cup {<<<<"Agent", spans>>, <<"Theme", other>>>> :
                 spans \in SpansLists, other \in small}
        \cup {<<<<"Theme", other>>, <<RoleSpansKey, spans>>>> :
                 spans \in SpansLists, other \in small}
        \cup {<<<<"Agent", spans>>, <<RoleSpansKey, <<SpanA>>>>, <<"Theme", other>>>> :
                 spans \in SpansLists, other \in small}

\* 'frame-trigger-span' values: tuples of 0, 4, 5 and 6 elements
TriggerSpans10 ==
    {<<>>, <<<<"b", "c">>, 2, 3, 1>>, <<<<"b", "c">>, 2, 3, 1, 1>>,
     <<<<"a">>, 0, 0, 0, 0, "Attack">>}

\* report_dict / source_dict values, with and without the trigger field
TextDicts10(role_dicts) ==
    {[doctext |-> <<"a", " ", "b", "c">>, role_annotations |-> role_dict] :
        role_dict \in role_dicts}
    \cup {("frame-trigger-span" :> trigger_span)
            @@ [doctext |-> <<"a", " ", "b", "c">>, role_annotations |-> role_dict] :
          role_dict \in role_dicts, trigger_span \in TriggerSpans10}

SpanTupleInstances10 ==
    {[instance_id |-> "id1", frame |-> "Attack",
      report_dict |-> report_dict, source_dict |-> source_dict] :
        report_dict \in TextDicts10(RoleDicts10),
        source_dict \in
            {[doctext |-> <<>>],
             ("frame-trigger-span" :> <<<<"a">>, 0, 0, 0, 0>>)
                @@ [doctext |-> <<"a">>,
                    role_annotations |-> <<<<"Theme", <<SpanShort, SpanA>>>>>>]}}

\* a FAMuS 1.1 instance with no template and no trigger
PlainInstance11 ==
    [instance_id |-> "id1", report |-> <<<<"a">>, <<"b", "c">>>>, source |-> <<>>,
     report_template |-> <<>>, source_template |-> <<>>]

MaxArgs == 2

\* documents of the template variant
DocTokens11 == {<<>>, <<<<"a">>>>, <<<<"a">>, <<"b", "c">>>>}

\* arguments: in range for "a bc", with tokens that are not the document's,
\* past the end, negative, and without one index or without tokens
Arguments11 ==
    {[start_token |-> 0, end_token |-> 0, tokens |-> <<<<"a">>>>],
     [start_token |-> 0, end_token |-> 1, tokens |-> <<<<"a">>, <<"b", "c">>>>],
     [start_token |-> 1, end_token |-> 1, tokens |-> <<<<"x">>, <<"y">>>>],
     [start_token |-> 0, end_token |-> 2, tokens |-> <<<<"a">>>>],
     [start_token |-> 2, end_token |-> 2, tokens |-> <<>>],
     [start_token |-> -1, end_token |-> -1, tokens |-> <<<<"b", "c">>>>],
     [start_token |-> 0, tokens |-> <<<<"a">>>>],
     [end_token |-> 0, tokens |-> <<<<"a">>>>],
     [start_token |-> 0, end_token |-> 0]}

ArgumentLists11 == SeqsUpTo(Arguments11, MaxArgs)

\* template dicts: one role with any argument list or without 'arguments',
\* alone or beside a second role, in both insertion orders
Templates11 ==
    LET role_datas == {[arguments |-> arguments] : arguments \in ArgumentLists11}
                      \cup {[definition |-> ""]}
        small == {[definition |-> ""],
                  [arguments |-> <<[start_token |-> 0, end_token |-> 0,
                                    tokens |-> <<<<"a">>>>]>>]}
    IN  {<<>>}
        \cup {<<<<"Agent", role_data>>>> : role_data \in role_datas}
        \cup {<<<<"Agent", role_data>>, <<"Theme", other>>>> :
                 role_data \in role_datas, other \in small}
        \cup {<<<<"Theme", other>>, <<"Agent", role_data>>>> :
                 role_data \in role_datas, other \in small}

\* trigger descriptors: empty, in range, past the end, negative, without indices
Triggers11 ==
    {<<>>,
     [frame |-> "Attack", tokens |-> <<<<"a">>>>, start_token |-> 0, end_token |-> 0],
     [frame |-> "Attack", tokens |-> <<<<"a">>, <<"b", "c">>>>,
      start_token |-> 0, end_token |-> 1],
     [frame |-> "Attack", tokens |-> <<<<"a">>>>, start_token |-> 0, end_token |-> 2],
     [frame |-> "Attack", tokens |-> <<<<"a">>>>, start_token |-> 2, end_token |-> 2],
     [frame |-> "Attack", tokens |-> <<<<"b", "c">>>>,
      start_token |-> -1, end_token |-> -1],
     [frame |-> "Attack", tokens |-> <<<<"a">>>>]}

TemplateInstances11 ==
    {[instance_id     |-> "id1",
      report          |-> tokens,
      source          |-> <<<<"b", "c">>, <<"a">>>>,
      report_template |-> template_dict,
      source_template |->
          << <<"Theme", [arguments |-> <<[start_token |-> 1, end_token |-> 1,
                                          tokens |-> <<<<"a">>>>]>>]>> >>,
      trigger         |-> trigger_dict] :
        tokens \in DocTokens11, template_dict \in Templates11,
        trigger_dict \in Triggers11}

\* a span tuple whose char span is not that of "a" in "a bc"
SpanAWide == <<<<"a">>, 0, 1, 0, 0, "">>

\* FAMuS 1.0 instances over "a bc" whose annotations and triggers may or may
\* not be those of DiffInstances11
DiffInstances10 ==
    LET Dict(spans, trigger_spans) ==
            {[doctext |-> <<"a", " ", "b", "c">>,
              role_annotations |-> <<<<"Agent", spans>>>>]}
            \cup {("frame-trigger-span" :> trigger_span)
                    @@ [doctext |-> <<"a", " ", "b", "c">>,
                        role_annotations |-> <<<<"Agent", spans>>>>] :
                  trigger_span \in trigger_spans}
    IN  {[instance_id |-> "id1", frame |-> "Attack",
          report_dict |-> report_dict, source_dict |-> source_dict] :
            report_dict \in
                UNION {Dict(spans, {<<<<"a">>, 0, 0, 0, 0>>, <<<<"a">>, 0, 1, 0, 0>>}) :
                          spans \in SeqsUpTo({SpanA, SpanBC, SpanAWide}, MaxSpans)},
            source_dict \in
                UNION {Dict(spans, {<<<<"a">>, 0, 0, 0, 0>>}) :
                          spans \in {<<>>, <<SpanA>>}}}

DiffInstances11 ==
    LET A0 == [start_token |-> 0, end_token |-> 0, tokens |-> <<<<"a">>>>]
        A1 == [start_token |-> 1, end_token |-> 1, tokens |-> <<<<"b", "c">>>>]
    IN  {[instance_id     |-> "id1",
          report          |-> <<<<"a">>, <<"b", "c">>>>,
          source          |-> <<<<"a">>, <<"b", "c">>>>,
          report_template |-> <<<<"Agent", [arguments |-> arguments]>>>>,
          source_template |-> <<<<"Agent", [arguments |-> source_arguments]>>>>,
          trigger         |-> trigger_dict] :
            arguments \in SeqsUpTo({A0, A1}, MaxArgs),
            source_arguments \in {<<>>, <<A0>>},
            trigger_dict \in
                {<<>>,
                 [frame |-> "Attack", tokens |-> <<<<"a">>>>,
                  start_token |-> 0, end_token |-> 0],
                 [frame |-> "Attack", tokens |-> <<<<"b", "c">>>>,
                  start_token |-> 1, end_token |-> 1]}}

---------------------------------------------------------------------------
(* main(): the dicts of instances, the splits and the split of a record *)

\* the keys of a dict held in insertion order
keys(d) == {d[i][1] : i \in 1..Len(d)}

\* mutant: every assignment adds an entry, as to a list of pairs
put_append(d, key, value) == Append(d, <<key, value>>)

\* d[key] = value on a dict held in insertion order: a key the dict has keeps
\* its place
put(d, key, value) ==
    IF key \in keys(d)
    THEN [i \in 1..Len(d) |-> IF d[i][1] = key THEN <<key, value>> ELSE d[i]]
    ELSE Append(d, <<key, value>>)

\* mutant: the split is stored under the key 'frame'
set_split_as_frame(unified_, split) == [unified_ EXCEPT !.frame = split]

\* unified['split'] = split
set_split(unified_, split) == ("split" :> split) @@ unified_

\* mutant: every unified instance is counted
count_differences_every(count, unified_) == count + 1

\* if unified['has_differences']: instances_with_differences += 1
count_differences(count, unified_) ==
    IF unified_.has_differences THEN count + 1 ELSE count

\* for split in ['train', 'dev', 'test']
split_order == <<"train", "dev", "test">>

Splits == Range(split_order)

\* the place of a split in the order main() reads the files
SplitRank(split) == CHOOSE i \in 1..Len(split_order) : split_order[i] = split

---------------------------------------------------------------------------
(* The run: one instance pair through main()'s load and unify steps *)

\* split.jsonl holds the one line inst10 and a .json file the one instance
\* inst11
Loaded(split, inst10, inst11, onto) ==
    /\ pc = "load10"
    /\ ontology = onto
    /\ instance10 = inst10
    /\ instance11 = inst11
    /\ v10_data = None
    /\ v11_data = None
    /\ char_positions = None
    /\ trigger_positions = None
    /\ unified = None
    /\ frames = None /\ frame_pos = 0 /\ hierarchy = None /\ hierarchy_index = None
    /\ lines10 = <<<<split, Some(inst10)>>>> /\ data11 = <<inst11>> /\ pos = 0
    /\ v10_instances = <<>> /\ v11_instances = <<>>
    /\ unified_instances = None /\ instances_with_differences = 0
    /\ metadata = None

InitOffsets ==
    \E split \in Splits, inst11 \in OffsetInstances11 :
        Loaded(split, PlainInstance10, inst11, None)

\* main(): the line of the FAMuS 1.0 file: v10_instances[instance_id] =
\* {'data': process_famus_10_instance(...), 'frame': frame, 'split': split};
\* a line without 'instance_id' raises KeyError
Process10 ==
    /\ pc = "load10"
    /\ IF "instance_id" \notin DOMAIN instance10
       THEN /\ pc' = "error"
            /\ UNCHANGED <<v10_data, v10_instances>>
       ELSE /\ v10_data' = process_famus_10_instance(instance10, ontology)
            /\ v10_instances' =
                   put(v10_instances, instance10.instance_id,
                       [data  |-> process_famus_10_instance(instance10, ontology),
                        frame |-> Get(instance10, "frame", ""),
                        split |-> lines10[1][1]])
            /\ pc' = "load11"
    /\ UNCHANGED <<ontology, instance10, instance11, v11_data, char_positions,
                   trigger_positions, unified, hierarchy_vars, lines10, data11,
                   pos, v11_instances, unified_instances,
                   instances_with_differences, metadata>>

\* main(): the instance of the FAMuS 1.1 file: v11_instances[instance_id] =
\* process_famus_11_instance(...); an instance without 'instance_id' raises
\* KeyError, and an IndexError is not caught and ends the run
Process11 ==
    /\ pc = "load11"
    /\ LET report_tokens == Get(instance11, "report", <<>>)
           trigger_data  == Get(instance11, "trigger", <<>>)
           report_raises == convert_template_raises(
                                Get(instance11, "report_template", <<>>),
                                report_tokens)
           key_error     == "instance_id" \notin DOMAIN instance11
       IN  /\ char_positions' =
                  IF key_error THEN None ELSE calc_char_positions(report_tokens)
           /\ trigger_positions' =
                  IF ~key_error /\ trigger_data # <<>> /\ ~report_raises
                  THEN trigger_char_positions(report_tokens)
                  ELSE None
           /\ IF key_error \/ process_famus_11_instance_raises(instance11)
              THEN /\ pc' = "error"
                   /\ UNCHANGED <<v11_data, v11_instances>>
              ELSE /\ pc' = "unify"
                   /\ v11_data' = process_famus_11_instance(instance11, ontology)
                   /\ v11_instances' =
                          (instance11.instance_id :>
                               process_famus_11_instance(instance11, ontology))
    /\ UNCHANGED <<ontology, instance10, instance11, v10_data, unified,
                   hierarchy_vars, lines10, data11, pos, v10_instances,
                   unified_instances, instances_with_differences, metadata>>

\* main(): the iteration of the unify loop for the instance:
\* v11_data = v11_instances.get(instance_id); if v11_data: unified =
\* create_unified_instance(...); unified['split'] = split; the record is
\* appended to the output list and counted; else the warning
Unify ==
    /\ pc = "unify"
    /\ LET instance_id == v10_instances[1][1]
           v10_info    == v10_instances[1][2]
           v11         == Get(v11_instances, instance_id, None)
           unified_    == set_split(create_unified_instance(
                                        instance_id, v10_info.frame,
                                        v10_info.data, v11, ontology),
                                    v10_info.split)
       IN  /\ v10_data' = v10_info.data
           /\ v11_data' = v11
           /\ IF v11 # None
              THEN /\ unified' = unified_
                   /\ unified_instances' = Append(unified_instances, unified_)
                   /\ instances_with_differences' =
                          count_differences(instances_with_differences, unified_)
                   /\ pc' = "done"
              ELSE /\ pc' = "skipped"
                   /\ UNCHANGED <<unified, unified_instances,
                                  instances_with_differences>>
    /\ UNCHANGED <<ontology, instance10, instance11, char_positions,
                   trigger_positions, hierarchy_vars, lines10, data11, pos,
                   v10_instances, v11_instances, metadata>>

InitSpanTuple ==
    \E split \in Splits,
       inst10 \in SpanTupleInstances10,
       inst11 \in {PlainInstance11,
                   [PlainInstance11 EXCEPT !.instance_id = "id2"],
                   [report |-> <<<<"a">>, <<"b", "c">>>>, source |-> <<>>]} :
        Loaded(split, inst10, inst11, None)

InitTemplate ==
    \E split \in Splits, inst11 \in TemplateInstances11 :
        Loaded(split, PlainInstance10, inst11, None)

InitDiff ==
    \E inst10 \in DiffInstances10, inst11 \in DiffInstances11 :
        \E split \in Splits : Loaded(split, inst10, inst11, None)

Next == Process10 \/ Process11 \/ Unify

SpecOffsets == InitOffsets /\ [][Next]_vars

SpecSpanTuple == InitSpanTuple /\ [][Next]_vars

SpecTemplate == InitTemplate /\ [][Next]_vars

SpecDiff == InitDiff /\ [][Next]_vars

---------------------------------------------------------------------------
(* Token offsets and char spans of the template variant: C1, C2, C3 *)

\* spec 4.1: the sum of the lengths of tokens[0..i-1] plus i
RECURSIVE TokenOffset(_, _)
TokenOffset(tokens, i) ==
    IF i = 0 THEN 0 ELSE TokenOffset(tokens, i - 1) + Len(tokens[i]) + 1

\* offset[0] = 0 and offset[i] = offset[i-1] + len(token[i-1]) + 1, one per token
OffsetsChain(tokens, positions) ==
    /\ Len(positions) = Len(tokens)
    /\ Len(tokens) > 0 => positions[1] = 0
    /\ \A i \in 2..Len(tokens) :
           positions[i] = positions[i - 1] + Len(tokens[i - 1]) + 1

\* text holds each token at its offset, one space before every token but the
\* first, and nothing else
JoinedBySpaces(text, tokens, positions) ==
    /\ Len(text) = IF Len(tokens) = 0 THEN 0
                   ELSE positions[Len(tokens)] + Len(tokens[Len(tokens)])
    /\ \A i \in 1..Len(tokens) :
           /\ \A j \in 1..Len(tokens[i]) : text[positions[i] + j] = tokens[i][j]
           /\ i > 1 => text[positions[i]] = " "

\* the one argument of an instance of OffsetInstances11
OffsetArgument == instance11.report_template[1][2].arguments[1]

InRange(tokens, start_token, end_token) ==
    0 <= start_token /\ start_token <= end_token /\ end_token < Len(tokens)

\* C1: once a template instance is processed, the offsets computed for argument
\* conversion, and those computed for trigger extraction, start at 0 and each
\* next one adds the previous token's length plus 1; the document text is the
\* tokens joined by single spaces, empty for no tokens.
C1_OffsetsAndText ==
    pc \in {"unify", "done"} =>
        /\ OffsetsChain(instance11.report, char_positions)
        /\ OffsetsChain(instance11.report, trigger_positions)
        /\ JoinedBySpaces(v11_data.report.text, instance11.report, char_positions)

C1_Witness ==
    /\ pc = "done"
    /\ char_positions = <<0, 4, 8, 12>>
    /\ trigger_positions = <<0, 4, 8, 12>>
    /\ Len(v11_data.report.text) = 16

\* C2: for an in-range token span the argument's char span starts at
\* offset[start_token] and ends at offset[end_token] + len(token[end_token]) - 1
\* when end_token is the last index, else at offset[end_token + 1] - 2.
C2_CharSpan ==
    (pc \in {"unify", "done"}
     /\ InRange(instance11.report, OffsetArgument.start_token,
                OffsetArgument.end_token)) =>
        LET tokens == instance11.report
            st     == OffsetArgument.start_token
            et     == OffsetArgument.end_token
        IN  v11_data.report.annotations[1].span =
                <<TokenOffset(tokens, st),
                  IF et = Len(tokens) - 1
                  THEN TokenOffset(tokens, et) + Len(tokens[et + 1]) - 1
                  ELSE TokenOffset(tokens, et + 1) - 2>>

C2_Witness ==
    /\ pc = "done"
    /\ Len(instance11.report) = 4
    /\ OffsetArgument.start_token = 1
    /\ OffsetArgument.end_token = 3
    /\ v11_data.report.annotations[1].span = <<4, 15>>

\* C3: for an in-range token span, the document text at the argument's char
\* span, both ends inclusive, is tokens[start_token..end_token] joined by
\* single spaces.
C3_RoundTrip ==
    (pc \in {"unify", "done"}
     /\ InRange(instance11.report, OffsetArgument.start_token,
                OffsetArgument.end_token)) =>
        LET span == v11_data.report.annotations[1].span
        IN  Substring(v11_data.report.text, span[1], span[2]) =
                Join(PySlice(instance11.report, OffsetArgument.start_token,
                             OffsetArgument.end_token + 1))

C3_Witness ==
    /\ pc = "done"
    /\ instance11.report = <<<<"T", "h", "e">>, <<"d", "o", "g">>,
                             <<"r", "a", "n">>, <<"f", "a", "s", "t">>>>
    /\ OffsetArgument.start_token = 1
    /\ OffsetArgument.end_token = 2
    /\ v11_data.report.annotations[1].span = <<4, 10>>
    /\ v11_data.report.annotations[1].text =
           <<"d", "o", "g", " ", "r", "a", "n">>
    /\ Substring(v11_data.report.text, 4, 10) =
           <<"d", "o", "g", " ", "r", "a", "n">>

---------------------------------------------------------------------------
(* Span-tuple variant: C4, C6 *)

\* the places <<i, j>> of the tuples of a role_annotations dict that are to be
\* emitted: under a role key, with at least 6 elements
EmittedPlaces(role_dict) ==
    {<<i, j>> \in (1..Len(role_dict)) \X (1..MaxSpans + 1) :
        /\ role_dict[i][1] # RoleSpansKey
        /\ j <= Len(role_dict[i][2])
        /\ Len(role_dict[i][2][j]) >= 6}

\* the position of place p among the emitted places, in iteration order
PlaceRank(role_dict, p) ==
    1 + Cardinality({q \in EmittedPlaces(role_dict) :
                        q[1] < p[1] \/ (q[1] = p[1] /\ q[2] < p[2])})

SpanTupleAnnotationsOk(text_dict, annotations) ==
    LET role_dict == Get(text_dict, "role_annotations", <<>>)
    IN  /\ Len(annotations) = Cardinality(EmittedPlaces(role_dict))
        /\ \A p \in EmittedPlaces(role_dict) :
               LET role      == role_dict[p[1]][1]
                   span_info == role_dict[p[1]][2][p[2]]
                   ann       == annotations[PlaceRank(role_dict, p)]
               IN  /\ ann.text = span_info[1]
                   /\ ann.span = <<span_info[2], span_info[3]>>
                   /\ ann.token_span = <<span_info[4], span_info[5]>>
                   /\ ann.role = role
                   /\ ann.label = IF span_info[6] = "" THEN role ELSE span_info[6]

\* C4: the annotations of a span-tuple document are one per tuple of at least 6
\* elements, in iteration order, over every key but the structural one; each
\* takes text, char span, token span and label from tuple positions 0..5, the
\* label falling back to the role; shorter tuples give nothing and no error.
C4_SpanTupleAnnotations ==
    pc # "load10" =>
        /\ v10_data # None
        /\ SpanTupleAnnotationsOk(Get(instance10, "report_dict", <<>>),
                                  v10_data.report.annotations)
        /\ SpanTupleAnnotationsOk(Get(instance10, "source_dict", <<>>),
                                  v10_data.source.annotations)

C4_Witness ==
    /\ pc = "done"
    /\ instance10.report_dict.role_annotations =
           <<<<"Agent", <<SpanShort, SpanA>>>>, <<RoleSpansKey, <<SpanA>>>>,
             <<"Theme", <<SpanAPerp>>>>>>
    /\ Len(v10_data.report.annotations) = 2
    /\ v10_data.report.annotations[1].label = "Agent"
    /\ v10_data.report.annotations[2].role = "Theme"
    /\ v10_data.report.annotations[2].label = "Perp"
    /\ Len(v10_data.source.annotations) = 1

SpanTupleTriggerOk(text_dict, trigger, frame_name) ==
    LET given == /\ "frame-trigger-span" \in DOMAIN text_dict
                 /\ Len(text_dict["frame-trigger-span"]) >= 5
        trigger_span == text_dict["frame-trigger-span"]
    IN  /\ (trigger = None) <=> ~given
        /\ given =>
               /\ trigger.text = trigger_span[1]
               /\ trigger.start_char = Some(trigger_span[2])
               /\ trigger.end_char = Some(trigger_span[3])
               /\ trigger.start_token = Some(trigger_span[4])
               /\ trigger.end_token = Some(trigger_span[5])
               /\ trigger.frame = frame_name

\* C6: the trigger of a span-tuple document is absent exactly when
\* 'frame-trigger-span' is missing, empty or shorter than 5; otherwise it holds
\* tuple positions 0..4 and the instance's frame name.
C6_SpanTupleTrigger ==
    pc # "load10" =>
        /\ SpanTupleTriggerOk(Get(instance10, "report_dict", <<>>),
                              v10_data.report.trigger, instance10.frame)
        /\ SpanTupleTriggerOk(Get(instance10, "source_dict", <<>>),
                              v10_data.source.trigger, instance10.frame)

C6_Witness ==
    /\ pc = "done"
    /\ "frame-trigger-span" \in DOMAIN instance10.report_dict
    /\ Len(instance10.report_dict["frame-trigger-span"]) = 5
    /\ v10_data.report.trigger.text = <<"b", "c">>
    /\ v10_data.report.trigger.end_char = Some(3)
    /\ v10_data.report.trigger.frame = "Attack"
    /\ "frame-trigger-span" \notin DOMAIN instance10.source_dict
    /\ v10_data.source.trigger = None

---------------------------------------------------------------------------
(* Template variant: C5, C7 *)

\* spec 4.1 char_span_of over the document's tokens: the in-range rule, and the
\* whole-document fallback [0, len(text)] for an index outside the sequence
DocumentCharSpan(tokens, start_token, end_token) ==
    IF /\ 0 <= start_token /\ start_token < Len(tokens)
       /\ 0 <= end_token /\ end_token < Len(tokens)
    THEN <<TokenOffset(tokens, start_token),
           IF end_token = Len(tokens) - 1
           THEN TokenOffset(tokens, end_token) + Len(tokens[end_token + 1]) - 1
           ELSE TokenOffset(tokens, end_token + 1) - 2>>
    ELSE <<0, Len(Join(tokens))>>

\* the places <<i, j>> of the arguments of a template dict that have both
\* token indices
ArgumentPlaces(template_dict) ==
    {<<i, j>> \in (1..Len(template_dict)) \X (1..MaxArgs + 1) :
        /\ "arguments" \in DOMAIN template_dict[i][2]
        /\ j <= Len(template_dict[i][2].arguments)
        /\ "start_token" \in DOMAIN template_dict[i][2].arguments[j]
        /\ "end_token" \in DOMAIN template_dict[i][2].arguments[j]}

ArgumentRank(template_dict, p) ==
    1 + Cardinality({q \in ArgumentPlaces(template_dict) :
                        q[1] < p[1] \/ (q[1] = p[1] /\ q[2] < p[2])})

\* one annotation per argument with both indices; Span(arg) is its char span
TemplateAnnotationsOk(template_dict, annotations, Span(_)) ==
    /\ Len(annotations) = Cardinality(ArgumentPlaces(template_dict))
    /\ \A p \in ArgumentPlaces(template_dict) :
           LET role == template_dict[p[1]][1]
               arg  == template_dict[p[1]][2].arguments[p[2]]
               ann  == annotations[ArgumentRank(template_dict, p)]
           IN  /\ ann.text = Join(Get(arg, "tokens", <<>>))
               /\ ann.token_span = <<arg.start_token, arg.end_token>>
               /\ ann.role = role
               /\ ann.label = role
               /\ ann.span = Span(arg)

\* C5 (as claimed; the code falls short of it): processing a template instance
\* raises no error in convert_template and emits exactly one annotation per
\* argument that has both token indices, with text the argument's tokens joined
\* by spaces, token_span [start_token, end_token], role = label = the role key
\* and the char span computed over the document's tokens; arguments missing an
\* index give nothing.
C5_TemplateAnnotations ==
    pc \in {"unify", "done", "error"} =>
        /\ ~convert_template_raises(instance11.report_template, instance11.report)
        /\ ~convert_template_raises(instance11.source_template, instance11.source)
        /\ v11_data # None =>
               /\ TemplateAnnotationsOk(
                      instance11.report_template, v11_data.report.annotations,
                      LAMBDA arg : DocumentCharSpan(instance11.report,
                                                    arg.start_token, arg.end_token))
               /\ TemplateAnnotationsOk(
                      instance11.source_template, v11_data.source.annotations,
                      LAMBDA arg : DocumentCharSpan(instance11.source,
                                                    arg.start_token, arg.end_token))

\* the char span convert_template gives an argument at (start_token, end_token)
ArgumentRuleSpan(tokens, start_token, end_token) ==
    convert_argument("", [start_token |-> start_token, end_token |-> end_token],
                     tokens, calc_char_positions(tokens)).span

\* C7 (as claimed; the code falls short of it): the trigger of a template
\* instance is absent exactly when the descriptor is absent or empty; every
\* non-empty descriptor gives a trigger whose text is its tokens joined by
\* spaces and whose start_char / end_char are the char span at
\* (start_token, end_token) over the document's tokens, by the rule used for
\* arguments.
C7_TemplateTrigger ==
    (/\ pc \in {"unify", "done", "error"}
     /\ ~convert_template_raises(instance11.report_template, instance11.report)) =>
        LET trigger_dict == Get(instance11, "trigger", <<>>)
        IN  IF trigger_dict = <<>>
            THEN v11_data # None /\ v11_data.report.trigger = None
            ELSE /\ v11_data # None
                 /\ v11_data.report.trigger # None
                 /\ v11_data.report.trigger.text =
                        Join(Get(trigger_dict, "tokens", <<>>))
                 /\ ("start_token" \in DOMAIN trigger_dict
                     /\ "end_token" \in DOMAIN trigger_dict) =>
                        LET span == ArgumentRuleSpan(instance11.report,
                                                     trigger_dict.start_token,
                                                     trigger_dict.end_token)
                        IN  /\ v11_data.report.trigger.start_char = Some(span[1])
                            /\ v11_data.report.trigger.end_char = Some(span[2])

---------------------------------------------------------------------------
(* The difference check: C8, C9, C10 *)

\* the (role, text, char span) triples of a normalized document
Triples(document) ==
    {<<ann.role, ann.text, ann.span>> : ann \in Range(document.annotations)}

\* both triggers absent, or both present with equal text, start_char, end_char
SameTrigger(document1, document2) ==
    \/ document1.trigger = None /\ document2.trigger = None
    \/ /\ document1.trigger # None
       /\ document2.trigger # None
       /\ document1.trigger.text = document2.trigger.text
       /\ document1.trigger.start_char = document2.trigger.start_char
       /\ document1.trigger.end_char = document2.trigger.end_char

\* C8: the difference recorded for an instance pair is the one computed with the
\* two versions swapped, and so are the annotation and trigger checks of the
\* report and of the source.
C8_Symmetric ==
    pc = "done" =>
        LET a == unified.v1_0
            b == unified.v1_1
        IN  /\ unified.has_differences = versions_differ(b, a)
            /\ \A doc \in {"report", "source"} :
                   /\ annotations_differ(a[doc].annotations, b[doc].annotations)
                          = annotations_differ(b[doc].annotations, a[doc].annotations)
                   /\ triggers_differ(a[doc].trigger, b[doc].trigger)
                          = triggers_differ(b[doc].trigger, a[doc].trigger)

\* equally many report annotations, those of 1.0 a proper part of those of 1.1
C8_Witness ==
    /\ pc = "done"
    /\ Len(unified.v1_0.report.annotations) = Len(unified.v1_1.report.annotations)
    /\ Triples(unified.v1_0.report) \subseteq Triples(unified.v1_1.report)
    /\ Triples(unified.v1_0.report) # Triples(unified.v1_1.report)
    /\ unified.v1_0.report.trigger = None
    /\ unified.v1_1.report.trigger # None
    /\ unified.has_differences

\* C9 (as claimed; the code falls short of it): has_differences is false
\* whenever, for the report and for the source, the two versions have the same
\* set of (role, text, char span) triples, in any order, and the same trigger or
\* none.
C9_NoDifference ==
    (/\ pc = "done"
     /\ \A doc \in {"report", "source"} :
            /\ Triples(unified.v1_0[doc]) = Triples(unified.v1_1[doc])
            /\ SameTrigger(unified.v1_0[doc], unified.v1_1[doc]))
        => ~unified.has_differences

\* C10: has_differences is true whenever, in the report or in the source, one
\* version has a (role, text, char span) triple the other lacks, or only one has
\* a trigger, or the triggers differ in text, start_char or end_char.
C10_Difference ==
    (/\ pc = "done"
     /\ \E doc \in {"report", "source"} :
            \/ Triples(unified.v1_0[doc]) # Triples(unified.v1_1[doc])
            \/ ~SameTrigger(unified.v1_0[doc], unified.v1_1[doc]))
        => unified.has_differences

\* the reports agree and only the 1.0 source has a trigger
C10_Witness ==
    /\ pc = "done"
    /\ Len(unified.v1_0.report.annotations) = 2
    /\ Triples(unified.v1_0.report) = Triples(unified.v1_1.report)
    /\ unified.v1_0.report.trigger # None
    /\ SameTrigger(unified.v1_0.report, unified.v1_1.report)
    /\ Triples(unified.v1_0.source) = Triples(unified.v1_1.source)
    /\ unified.v1_0.source.trigger # None
    /\ unified.v1_1.source.trigger = None
    /\ unified.has_differences

---------------------------------------------------------------------------
(* process_ontology.py: create_hierarchy_index *)

\* frame names in the order Python's sorted() gives them
NameOrder == <<"A", "B", "C", "Z">>

\* sorted(list(v)) of a set of frame names
sorted(v) == SelectSeq(NameOrder, LAMBDA name : name \in v)

\* the defaultdict(set) d after d[k].add(x) for every k in names
add_to_each(d, names, x) ==
    [k \in DOMAIN d \cup names |->
        (IF k \in DOMAIN d THEN d[k] ELSE {}) \cup (IF k \in names THEN {x} ELSE {})]

\* mutant: a frame is also a root when none of its ancestors is a frame it can
\* be reached from, here when it lists only itself
add_frame_self_root(h, frame_name, frame_data) ==
    LET ancestors == Get(frame_data, "ancestors", <<>>)
    IN  [roots    |-> IF Range(ancestors) \subseteq {frame_name}
                      THEN Append(h.roots, frame_name) ELSE h.roots,
         children |-> add_to_each(h.children, Range(ancestors), frame_name),
         parents  |-> IF ancestors = <<>> THEN h.parents
                      ELSE [k \in DOMAIN h.parents \cup {frame_name} |->
                               IF k = frame_name
                               THEN Get(h.parents, k, {}) \cup Range(ancestors)
                               ELSE h.parents[k]]]

\* mutant: the frame's 'descendants' are entered as its children as well
add_frame_with_descendants(h, frame_name, frame_data) ==
    LET ancestors   == Get(frame_data, "ancestors", <<>>)
        descendants == Get(frame_data, "descendants", <<>>)
        children    == add_to_each(h.children, Range(ancestors), frame_name)
        parents     == IF ancestors = <<>> THEN h.parents
                       ELSE [k \in DOMAIN h.parents \cup {frame_name} |->
                                IF k = frame_name
                                THEN Get(h.parents, k, {}) \cup Range(ancestors)
                                ELSE h.parents[k]]
    IN  [roots    |-> IF ancestors = <<>> THEN Append(h.roots, frame_name) ELSE h.roots,
         children |-> IF descendants = <<>> THEN children
                      ELSE [k \in DOMAIN children \cup {frame_name} |->
                               IF k = frame_name
                               THEN Get(children, k, {}) \cup Range(descendants)
                               ELSE children[k]],
         parents  |-> add_to_each(parents, Range(descendants), frame_name)]

\* one iteration of the loop over frames.items()
add_frame(h, frame_name, frame_data) ==
    LET ancestors == Get(frame_data, "ancestors", <<>>)
    IN  [roots    |-> IF ancestors = <<>> THEN Append(h.roots, frame_name) ELSE h.roots,
         children |-> add_to_each(h.children, Range(ancestors), frame_name),
         parents  |-> IF ancestors = <<>> THEN h.parents
                      ELSE [k \in DOMAIN h.parents \cup {frame_name} |->
                               IF k = frame_name
                               THEN Get(h.parents, k, {}) \cup Range(ancestors)
                               ELSE h.parents[k]]]

\* mutant: children keeps only the first frame of every set
finalize_first_child(h) ==
    [roots    |-> sorted(Range(h.roots)),
     children |-> [k \in DOMAIN h.children |-> PySlice(sorted(h.children[k]), 0, 1)],
     parents  |-> [k \in DOMAIN h.parents |-> sorted(h.parents[k])]]

\* mutant: roots is returned as the loop appended to it
finalize_roots_as_appended(h) ==
    [roots    |-> h.roots,
     children |-> [k \in DOMAIN h.children |-> sorted(h.children[k])],
     parents  |-> [k \in DOMAIN h.parents |-> sorted(h.parents[k])]]

\* the conversion of the sets to sorted lists, and of roots to a sorted list
\* without duplicates
finalize(h) ==
    [roots    |-> sorted(Range(h.roots)),
     children |-> [k \in DOMAIN h.children |-> sorted(h.children[k])],
     parents  |-> [k \in DOMAIN h.parents |-> sorted(h.parents[k])]]

MaxFrames == 2

\* the names of the table's frames; "Z" is never a frame of the table
TableNames == {NameOrder[i] : i \in 1..MaxFrames}

\* 'ancestors' lists: empty, one name (the frame itself, another frame, or a
\* name that is not in the table), one name twice, and two names
AncestorLists ==
    {<<>>}
    \cup {<<a>> : a \in TableNames \cup {"Z"}}
    \cup {<<a, b>> : a \in TableNames, b \in TableNames \cup {"Z"}}

\* frame entries of ontology.json, with and without the 'ancestors' key
FrameDatas ==
    {[definition |-> ""]}
    \cup {[definition |-> "", ancestors |-> ancestors, descendants |-> <<>>] :
             ancestors \in AncestorLists}

\* ontology tables: distinct frame names, in any insertion order
OntologyTables ==
    {table \in SeqsUpTo(TableNames \X FrameDatas, MaxFrames) :
        \A i, j \in 1..Len(table) : i # j => table[i][1] # table[j][1]}

InitHierarchy ==
    /\ pc = "hierarchy_loop"
    /\ frames \in OntologyTables
    /\ frame_pos = 0
    /\ hierarchy = [roots |-> <<>>, children |-> <<>>, parents |-> <<>>]
    /\ hierarchy_index = None
    /\ ontology = None /\ instance10 = None /\ instance11 = None
    /\ v10_data = None /\ v11_data = None
    /\ char_positions = None /\ trigger_positions = None /\ unified = None
    /\ lines10 = None /\ data11 = None /\ pos = 0
    /\ v10_instances = None /\ v11_instances = None
    /\ unified_instances = None /\ instances_with_differences = 0
    /\ metadata = None

\* one iteration of `for frame_name, frame_data in frames.items()`
AddFrame ==
    /\ pc = "hierarchy_loop"
    /\ frame_pos < Len(frames)
    /\ hierarchy' = add_frame(hierarchy, frames[frame_pos + 1][1],
                              frames[frame_pos + 1][2])
    /\ frame_pos' = frame_pos + 1
    /\ UNCHANGED <<pc, frames, hierarchy_index, ontology, instance10, instance11,
                   v10_data, v11_data, char_positions, trigger_positions, unified,
                   corpus_vars>>

\* the statements after the loop, and the return
Finalize ==
    /\ pc = "hierarchy_loop"
    /\ frame_pos = Len(frames)
    /\ hierarchy_index' = finalize(hierarchy)
    /\ pc' = "hierarchy_done"
    /\ UNCHANGED <<frames, frame_pos, hierarchy, ontology, instance10, instance11,
                   v10_data, v11_data, char_positions, trigger_positions, unified,
                   corpus_vars>>

NextHierarchy == AddFrame \/ Finalize

SpecHierarchy == InitHierarchy /\ [][NextHierarchy]_vars

\* the loop is a for loop over a finite dict: every iteration is taken
SpecHierarchyFair == SpecHierarchy /\ WF_vars(NextHierarchy)

---------------------------------------------------------------------------
(* The hierarchy index: C11, C12 *)

\* the frame_data of frame F in the table
FrameNode(F) == frames[CHOOSE i \in 1..Len(frames) : frames[i][1] = F][2]

\* the names of the frames of the table
TableFrames == {frames[i][1] : i \in 1..Len(frames)}

\* P appears in the ancestors list of the table frame F
AncestorOf(P, F) ==
    F \in TableFrames /\ P \in Range(Get(FrameNode(F), "ancestors", <<>>))

\* x is in the list d[k]; a key the dict does not have holds nothing
Holds(d, k, x) == k \in DOMAIN d /\ x \in Range(d[k])

\* C11: in the index create_hierarchy_index returns, F is in children[P]
\* exactly when P appears in the ancestors list of frame F, and P is in
\* parents[F] exactly when P appears in the ancestors list of F, for all
\* names P and F (frames of the table or not); so F is in children[P] exactly
\* when P is in parents[F].
C11_ChildrenAndParents ==
    pc = "hierarchy_done" =>
        \A P \in Range(NameOrder), F \in Range(NameOrder) :
            /\ Holds(hierarchy_index.children, P, F) <=> AncestorOf(P, F)
            /\ Holds(hierarchy_index.parents, F, P) <=> AncestorOf(P, F)
            /\ Holds(hierarchy_index.children, P, F) <=> Holds(hierarchy_index.parents, F, P)

\* an index over two frames that both list "A" (one of them twice, the other
\* beside a name that is not a frame of the table)
C11_Witness ==
    /\ pc = "hierarchy_done"
    /\ Len(frames) = 2
    /\ Get(FrameNode("A"), "ancestors", <<>>) = <<"A", "A">>
    /\ Get(FrameNode("B"), "ancestors", <<>>) = <<"A", "Z">>
    /\ hierarchy_index.children = ("A" :> <<"A", "B">>) @@ ("Z" :> <<"B">>)
    /\ hierarchy_index.parents = ("A" :> <<"A">>) @@ ("B" :> <<"A", "Z">>)

\* the table frames whose ancestors list is empty
RootFrames == {F \in TableFrames : Get(FrameNode(F), "ancestors", <<>>) = <<>>}

\* C12: for every ontology table, cyclic or inconsistent ones included,
\* create_hierarchy_index terminates, and the roots it returns are exactly the
\* table frames whose ancestors list is empty, each once: a frame with a
\* non-empty ancestors list is never a root.
C12_RootsAndTermination ==
    /\ <>(pc = "hierarchy_done")
    /\ [](pc = "hierarchy_done" =>
            /\ Range(hierarchy_index.roots) = RootFrames
            /\ Len(hierarchy_index.roots) = Cardinality(RootFrames))

\* the spec's example: {A: ancestors=[]}, {B: ancestors=["A"]}
C12_Witness ==
    /\ pc = "hierarchy_done"
    /\ frames = << <<"A", [definition |-> "", ancestors |-> <<>>,
                          descendants |-> <<>>]>>,
                   <<"B", [definition |-> "", ancestors |-> <<"A">>,
                          descendants |-> <<>>]>> >>
    /\ hierarchy_index = [roots    |-> <<"A">>,
                          children |-> ("A" :> <<"B">>),
                          parents  |-> ("B" :> <<"A">>)]

\* a cyclic table, A and B each the other's ancestor, has been indexed
C12_CyclicIndexed ==
    /\ pc = "hierarchy_done"
    /\ AncestorOf("A", "B") /\ AncestorOf("B", "A")
    /\ hierarchy_index.roots = <<>>

---------------------------------------------------------------------------
(* main() over a corpus: the load loops, the assembly loop and the report *)

\* the metadata fields that are counts of instances
create_metadata(unified_instances_, instances_with_differences_) ==
    LET InSplit(split) ==
            Len(SelectSeq(unified_instances_, LAMBDA inst : inst.split = split))
    IN  [total_instances            |-> Len(unified_instances_),
         instances_with_differences |-> instances_with_differences_,
         splits |-> [train |-> InSplit("train"), dev |-> InSplit("dev"),
                     test |-> InSplit("test")]]

MaxInstances == 2

InstanceIds == {"id1", "id2"}

\* FAMuS 1.0 instances over "a bc": the report with the annotation "a" of
\* role Agent or without annotations, and one without 'instance_id'
CorpusInstances10 ==
    LET Instance(spans) ==
            [frame |-> "Attack",
             report_dict |-> [doctext |-> <<"a", " ", "b", "c">>,
                              role_annotations |-> <<<<"Agent", spans>>>>],
             source_dict |-> [doctext |-> <<>>, role_annotations |-> <<>>]]
    IN  {("instance_id" :> "id1") @@ Instance(spans) : spans \in {<<>>, <<SpanA>>}}
        \cup {("instance_id" :> "id2") @@ Instance(<<SpanA>>), Instance(<<>>)}

\* the lines of a FAMuS 1.0 file: blank, or the JSON of an instance
CorpusLines10 == {None} \cup {Some(instance) : instance \in CorpusInstances10}

\* the lines of train.jsonl, dev.jsonl and test.jsonl in the order main()
\* reads them; a split without lines is a missing or an empty file
CorpusFiles10 ==
    {lines \in SeqsUpTo(Splits \X CorpusLines10, MaxInstances) :
        \A i \in 1..Len(lines) - 1 :
            SplitRank(lines[i][1]) <= SplitRank(lines[i + 1][1])}

\* FAMuS 1.1 instances over "a bc": the report with the argument "a" of role
\* Agent or without arguments, one without 'instance_id', and one whose
\* trigger ends past the last token
CorpusInstances11 ==
    LET A0 == [start_token |-> 0, end_token |-> 0, tokens |-> <<<<"a">>>>]
        Instance(id, arguments, trigger_dict) ==
            [instance_id     |-> id,
             report          |-> <<<<"a">>, <<"b", "c">>>>,
             source          |-> <<>>,
             report_template |-> <<<<"Agent", [arguments |-> arguments]>>>>,
             source_template |-> <<>>,
             trigger         |-> trigger_dict]
    IN  {Instance(id, arguments, <<>>) :
            id \in InstanceIds, arguments \in {<<>>, <<A0>>}}
        \cup {[report |-> <<<<"a">>, <<"b", "c">>>>, source |-> <<>>]}
        \cup {Instance("id2", <<A0>>,
                       [frame |-> "Attack", tokens |-> <<<<"a">>>>,
                        start_token |-> 0, end_token |-> 2])}

InitCorpus ==
    /\ pc = "read10"
    /\ ontology = None
    /\ lines10 \in CorpusFiles10
    /\ data11 \in SeqsUpTo(CorpusInstances11, MaxInstances)
    /\ pos = 0
    /\ v10_instances = <<>>
    /\ v11_instances = <<>>
    /\ unified_instances = <<>>
    /\ instances_with_differences = 0
    /\ metadata = None
    /\ instance10 = None /\ instance11 = None
    /\ v10_data = None /\ v11_data = None
    /\ char_positions = None /\ trigger_positions = None /\ unified = None
    /\ frames = None /\ frame_pos = 0 /\ hierarchy = None /\ hierarchy_index = None

\* main(): one line of the FAMuS 1.0 files, or the end of the last file; a
\* blank line is passed over, and a line without 'instance_id' raises KeyError
Load10 ==
    /\ pc = "read10"
    /\ IF pos < Len(lines10)
       THEN LET split == lines10[pos + 1][1]
                line  == lines10[pos + 1][2]
            IN  IF line = None
                THEN /\ pos' = pos + 1
                     /\ pc' = pc
                     /\ UNCHANGED <<instance10, v10_instances>>
                ELSE LET instance == line[1]
                     IN  /\ instance10' = instance
                         /\ IF "instance_id" \notin DOMAIN instance
                            THEN /\ pc' = "error"
                                 /\ UNCHANGED <<v10_instances, pos>>
                            ELSE /\ v10_instances' =
                                        put(v10_instances, instance.instance_id,
                                            [data  |-> process_famus_10_instance(
                                                           instance, ontology),
                                             frame |-> Get(instance, "frame", ""),
                                             split |-> split])
                                 /\ pos' = pos + 1
                                 /\ pc' = pc
       ELSE /\ pc' = "read11"
            /\ pos' = 0
            /\ UNCHANGED <<instance10, v10_instances>>
    /\ UNCHANGED <<ontology, instance11, v10_data, v11_data, char_positions,
                   trigger_positions, unified, lines10, data11, v11_instances,
                   unified_instances, instances_with_differences, metadata,
                   hierarchy_vars>>

\* main(): one instance of the FAMuS 1.1 files, or the end of the last list;
\* an instance without 'instance_id' raises KeyError, and an IndexError of
\* process_famus_11_instance is not caught and ends the run
Load11 ==
    /\ pc = "read11"
    /\ IF pos < Len(data11)
       THEN LET instance == data11[pos + 1]
            IN  /\ instance11' = instance
                /\ IF \/ "instance_id" \notin DOMAIN instance
                      \/ process_famus_11_instance_raises(instance)
                   THEN /\ pc' = "error"
                        /\ UNCHANGED <<v11_instances, pos>>
                   ELSE /\ v11_instances' =
                               [id \in DOMAIN v11_instances \cup {instance.instance_id} |->
                                   IF id = instance.instance_id
                                   THEN process_famus_11_instance(instance, ontology)
                                   ELSE v11_instances[id]]
                        /\ pos' = pos + 1
                        /\ pc' = pc
       ELSE /\ pc' = "assemble"
            /\ pos' = 0
            /\ UNCHANGED <<instance11, v11_instances>>
    /\ UNCHANGED <<ontology, instance10, v10_data, v11_data, char_positions,
                   trigger_positions, unified, lines10, data11, v10_instances,
                   unified_instances, instances_with_differences, metadata,
                   hierarchy_vars>>

\* main(): one iteration of the loop over v10_instances.items(), or its end
Assemble ==
    /\ pc = "assemble"
    /\ IF pos < Len(v10_instances)
       THEN LET instance_id == v10_instances[pos + 1][1]
                v10_info    == v10_instances[pos + 1][2]
                v11         == Get(v11_instances, instance_id, None)
                unified_    == set_split(create_unified_instance(
                                             instance_id, v10_info.frame,
                                             v10_info.data, v11, ontology),
                                         v10_info.split)
            IN  /\ v10_data' = v10_info.data
                /\ v11_data' = v11
                /\ IF v11 # None
                   THEN /\ unified' = unified_
                        /\ unified_instances' = Append(unified_instances, unified_)
                        /\ instances_with_differences' =
                               count_differences(instances_with_differences, unified_)
                   ELSE UNCHANGED <<unified, unified_instances,
                                    instances_with_differences>>
                /\ pos' = pos + 1
                /\ pc' = pc
       ELSE /\ pc' = "report"
            /\ UNCHANGED <<pos, v10_data, v11_data, unified, unified_instances,
                           instances_with_differences>>
    /\ UNCHANGED <<ontology, instance10, instance11, char_positions,
                   trigger_positions, lines10, data11, v10_instances, v11_instances,
                   metadata, hierarchy_vars>>

\* main(): the report of the counts and the metadata; the percentage divides
\* by len(unified_instances) and raises ZeroDivisionError on an empty list
Report ==
    /\ pc = "report"
    /\ IF Len(unified_instances) = 0
       THEN /\ pc' = "report_error"
            /\ UNCHANGED metadata
       ELSE /\ pc' = "done"
            /\ metadata' = create_metadata(unified_instances,
                                           instances_with_differences)
    /\ UNCHANGED <<ontology, instance10, instance11, v10_data, v11_data,
                   char_positions, trigger_positions, unified, lines10, data11, pos,
                   v10_instances, v11_instances, unified_instances,
                   instances_with_differences, hierarchy_vars>>

NextCorpus == Load10 \/ Load11 \/ Assemble \/ Report

SpecCorpus == InitCorpus /\ [][NextCorpus]_vars

---------------------------------------------------------------------------
(* Assembly over a corpus: C13, C20 *)

\* the instance ids of version A (FAMuS 1.0) and of version B (FAMuS 1.1)
IdsA ==
    {lines10[i][2][1].instance_id :
        i \in {k \in 1..Len(lines10) :
                  /\ lines10[k][2] # None
                  /\ "instance_id" \in DOMAIN lines10[k][2][1]}}

IdsB ==
    {data11[i].instance_id :
        i \in {k \in 1..Len(data11) : "instance_id" \in DOMAIN data11[k]}}

\* the places of the output list that hold a record of instance_id
RecordsOf(instance_id) ==
    {i \in 1..Len(unified_instances) : unified_instances[i].instance_id = instance_id}

AssemblyDone == pc \in {"report", "report_error", "done"}

\* C13: once the assembly loop has run over the corpus, the output list holds
\* a unified record for an instance_id exactly when the id is present in both
\* versions: an id present only in version A (or only in version B) has no
\* record; and the output never holds more than one record per instance_id.
C13_PairedOnly ==
    /\ \A id \in InstanceIds : Cardinality(RecordsOf(id)) <= 1
    /\ AssemblyDone =>
           \A id \in InstanceIds :
               (RecordsOf(id) # {}) <=> (id \in IdsA /\ id \in IdsB)

\* "id1" is in both versions (twice in version B) and has its record; "id2" is
\* in version A only, was skipped, and the run has written its output
C13_Witness ==
    /\ pc = "done"
    /\ IdsA = {"id1", "id2"} /\ IdsB = {"id1"}
    /\ Len(lines10) = 2 /\ Len(data11) = 2
    /\ Len(unified_instances) = 1
    /\ unified_instances[1].instance_id = "id1"

\* the places of the output list whose has_differences is true
WithDifferences ==
    {i \in 1..Len(unified_instances) : unified_instances[i].has_differences}

\* C20: the has_differences of every unified record of the output list equals
\* the difference check recomputed from the record's own v1_0 and v1_1, and
\* the instances_with_differences count, in the counter and in the reported
\* metadata, equals the number of records whose has_differences is true.
C20_Derived ==
    /\ \A i \in 1..Len(unified_instances) :
           unified_instances[i].has_differences =
               versions_differ(unified_instances[i].v1_0, unified_instances[i].v1_1)
    /\ instances_with_differences = Cardinality(WithDifferences)
    /\ pc = "done" =>
           metadata.instances_with_differences = Cardinality(WithDifferences)

\* two records, the first without and the second with differences, reported
C20_Witness ==
    /\ pc = "done"
    /\ Len(unified_instances) = 2
    /\ ~unified_instances[1].has_differences
    /\ unified_instances[2].has_differences
    /\ unified_instances[2].v1_0.report.annotations # <<>>
    /\ unified_instances[2].v1_1.report.annotations = <<>>
    /\ metadata.instances_with_differences = 1

---------------------------------------------------------------------------
(* Instance pairs with an ontology: the inputs of the enrichment *)

\* entries of frames.json (process_ontology.py, process_frame)
AttackFrame ==
    [name        |-> "Attack",
     definition  |-> "An assault",
     ancestors   |-> <<"Event">>,
     descendants |-> <<"Bombing", "Raid">>,
     core_roles  |-> [Agent |-> "The attacker"],
     all_roles   |-> [Agent |-> "The attacker", Victim |-> "The one attacked"]]

\* an entry without roles, and an entry without any of the fields
AttackFrameNoRoles ==
    [name |-> "Attack", definition |-> "An assault", ancestors |-> <<>>,
     descendants |-> <<>>, core_roles |-> <<>>, all_roles |-> <<>>]

AttackFrameBare == [name |-> "Attack"]

MotionFrame ==
    [name |-> "Motion", definition |-> "A move", ancestors |-> <<>>,
     descendants |-> <<>>, core_roles |-> <<>>,
     all_roles |-> [Agent |-> "The mover"]]

\* load_ontology(): None without frames.json, or its table
Ontologies ==
    {None,
     "Attack" :> AttackFrame,
     "Attack" :> AttackFrameNoRoles,
     "Attack" :> AttackFrameBare,
     "Motion" :> MotionFrame,
     ("Attack" :> AttackFrame) @@ ("Motion" :> MotionFrame)}

\* FAMuS 1.0 instances over "a bc" of a frame of the table, of another frame,
\* or without 'frame', with the roles Agent, Victim and Place
OntologyInstances10 ==
    LET Dicts(role_dict) ==
            [report_dict |-> [doctext |-> <<"a", " ", "b", "c">>,
                              role_annotations |-> role_dict],
             source_dict |-> [doctext |-> <<"a", " ", "b", "c">>,
                              role_annotations |-> <<<<"Victim", <<SpanBC>>>>>>]]
        RoleDicts == {<<>>,
                      <<<<"Agent", <<SpanAPerp>>>>>>,
                      <<<<"Place", <<SpanBC>>>>, <<"Agent", <<SpanA>>>>>>}
    IN  {[instance_id |-> "id1", frame |-> frame] @@ Dicts(role_dict) :
            frame \in {"Attack", "Arrest"}, role_dict \in RoleDicts}
        \cup {[instance_id |-> "id1"] @@ Dicts(role_dict) : role_dict \in RoleDicts}

\* FAMuS 1.1 instances over "a bc" whose trigger names a frame of the table,
\* another frame or no frame, with the roles Agent, Victim and Place
OntologyInstances11 ==
    LET A0 == [start_token |-> 0, end_token |-> 0, tokens |-> <<<<"a">>>>]
        A1 == [start_token |-> 1, end_token |-> 1, tokens |-> <<<<"b", "c">>>>]
    IN  {[instance_id     |-> "id1",
          report          |-> <<<<"a">>, <<"b", "c">>>>,
          source          |-> <<<<"a">>, <<"b", "c">>>>,
          report_template |-> template_dict,
          source_template |-> <<<<"Victim", [arguments |-> <<A1>>]>>>>,
          trigger         |-> trigger_dict] :
            template_dict \in
                {<<>>,
                 <<<<"Agent", [arguments |-> <<A0>>]>>>>,
                 <<<<"Place", [arguments |-> <<A1>>]>>,
                   <<"Agent", [arguments |-> <<A0, A1>>]>>>>},
            trigger_dict \in
                {<<>>,
                 [tokens |-> <<<<"a">>>>, start_token |-> 0, end_token |-> 0],
                 [frame |-> "Attack", tokens |-> <<<<"a">>>>,
                  start_token |-> 0, end_token |-> 0],
                 [frame |-> "Arrest", tokens |-> <<<<"b", "c">>>>,
                  start_token |-> 1, end_token |-> 1]}}

InitOntology ==
    \E inst10 \in OntologyInstances10, inst11 \in OntologyInstances11,
       onto \in Ontologies :
        \E split \in Splits : Loaded(split, inst10, inst11, onto)

SpecOntology == InitOntology /\ [][Next]_vars

---------------------------------------------------------------------------
(* The ontology fields of the unified record and of the annotations: C14, C16 *)

\* the frame is a key of a loaded ontology table
FrameKnown(frame) == ontology # None /\ frame \in DOMAIN ontology

\* C14: in every assembled instance, frame_definition, frame_ancestors and
\* frame_descendants are the 'definition', 'ancestors' and 'descendants' of
\* the ontology entry of the instance's frame when the frame is in the table
\* (the empty default for a field the entry does not have), and are the empty
\* string and the empty lists when the frame is not in the table or there is
\* no ontology.
C14_FrameFields ==
    pc = "done" =>
        LET frame == Get(instance10, "frame", "")
        IN  /\ unified.frame = frame
            /\ IF FrameKnown(frame)
               THEN LET entry == ontology[frame]
                    IN  /\ unified.frame_definition =
                               IF "definition" \in DOMAIN entry
                               THEN entry.definition ELSE ""
                        /\ unified.frame_ancestors =
                               IF "ancestors" \in DOMAIN entry
                               THEN entry.ancestors ELSE <<>>
                        /\ unified.frame_descendants =
                               IF "descendants" \in DOMAIN entry
                               THEN entry.descendants ELSE <<>>
               ELSE /\ unified.frame_definition = ""
                    /\ unified.frame_ancestors = <<>>
                    /\ unified.frame_descendants = <<>>

\* an instance of the frame Attack assembled with the table's entry of Attack
C14_Witness ==
    /\ pc = "done"
    /\ FrameKnown("Attack") /\ ontology["Attack"] = AttackFrame
    /\ unified.frame = "Attack"
    /\ unified.frame_definition = "An assault"
    /\ unified.frame_ancestors = <<"Event">>
    /\ unified.frame_descendants = <<"Bombing", "Raid">>

\* the role-definition table of a frame: empty for a frame the ontology does
\* not have and for an entry without 'all_roles'
RoleTable(frame_name) ==
    IF FrameKnown(frame_name) THEN Get(ontology[frame_name], "all_roles", <<>>)
    ELSE <<>>

\* every annotation of the normalized instance with a role of the table
\* carries the table's definition, the others satisfy Unmatched
EnrichedOk(data, frame_name, Unmatched(_)) ==
    LET annotations == data.report.annotations \o data.source.annotations
        table       == RoleTable(frame_name)
    IN  \A i \in 1..Len(annotations) :
            IF annotations[i].role \in DOMAIN table
            THEN /\ "role_definition" \in DOMAIN annotations[i]
                 /\ annotations[i].role_definition = table[annotations[i].role]
            ELSE Unmatched(annotations[i])

\* the frame a FAMuS 1.1 instance is enriched for: its trigger's
Frame11 == Get(Get(instance11, "trigger", <<>>), "frame", "")

\* C16: in a normalized instance of either variant, every annotation whose
\* role is in the frame's role-definition table carries that table's
\* definition as role_definition, and every annotation whose role is not in
\* the table, or whose frame is unknown to the ontology, has no
\* role_definition field.
C16_Enrichment ==
    /\ v10_data # None =>
           EnrichedOk(v10_data, Get(instance10, "frame", ""),
                      LAMBDA ann : "role_definition" \notin DOMAIN ann)
    /\ v11_data # None =>
           EnrichedOk(v11_data, Frame11,
                      LAMBDA ann : "role_definition" \notin DOMAIN ann)

\* C16 as amended: in a normalized instance of either variant, every
\* annotation whose role is in the frame's role-definition table carries that
\* table's definition as role_definition, and every annotation whose role is
\* not in the table, or whose frame is unknown to the ontology, carries the
\* empty string as role_definition.
C16_EnrichmentEmptyDefault ==
    /\ v10_data # None =>
           EnrichedOk(v10_data, Get(instance10, "frame", ""),
                      LAMBDA ann : /\ "role_definition" \in DOMAIN ann
                                   /\ ann.role_definition = "")
    /\ v11_data # None =>
           EnrichedOk(v11_data, Frame11,
                      LAMBDA ann : /\ "role_definition" \in DOMAIN ann
                                   /\ ann.role_definition = "")

\* both variants normalized for the frame Attack: the roles Agent and Victim
\* are in its table, the role Place is not
C16_Witness ==
    /\ v10_data # None /\ v11_data # None
    /\ Get(instance10, "frame", "") = "Attack" /\ Frame11 = "Attack"
    /\ FrameKnown("Attack") /\ RoleTable("Attack") = AttackFrame.all_roles
    /\ Len(v10_data.report.annotations) = 2
    /\ Len(v11_data.report.annotations) = 3
    /\ v10_data.report.annotations[1].role = "Place"
    /\ v10_data.report.annotations[1].role_definition = ""
    /\ v10_data.report.annotations[2].role = "Agent"
    /\ v10_data.report.annotations[2].role_definition = "The attacker"
    /\ v11_data.report.annotations[1].role = "Place"
    /\ v11_data.report.annotations[1].role_definition = ""
    /\ v11_data.source.annotations[1].role = "Victim"
    /\ v11_data.source.annotations[1].role_definition = "The one attacked"

---------------------------------------------------------------------------
(* Token indices outside the document: C15, C17, C18, C19 *)

\* start_token or end_token is outside the document's token sequence
OutOfRange(tokens, start_token, end_token) ==
    ~(/\ 0 <= start_token /\ start_token < Len(tokens)
      /\ 0 <= end_token /\ end_token < Len(tokens))

\* the annotations of a template's arguments whose indices are out of range
\* have the whole-document fallback span
FallbackOk(template_dict, tokens, annotations) ==
    \A p \in ArgumentPlaces(template_dict) :
        LET arg == template_dict[p[1]][2].arguments[p[2]]
        IN  OutOfRange(tokens, arg.start_token, arg.end_token) =>
                /\ ArgumentRank(template_dict, p) <= Len(annotations)
                /\ annotations[ArgumentRank(template_dict, p)].span =
                       <<0, Len(Join(tokens))>>

\* a template with an argument whose indices are out of range
HasOutOfRange(template_dict, tokens) ==
    \E p \in ArgumentPlaces(template_dict) :
        OutOfRange(tokens, template_dict[p[1]][2].arguments[p[2]].start_token,
                   template_dict[p[1]][2].arguments[p[2]].end_token)

\* C15 (as claimed; the code falls short of it): when an argument of a
\* template has a start_token or end_token outside the document's token
\* sequence, convert_template raises no error and the argument's annotation is
\* emitted with the char span [0, len(text)], text being the reconstructed
\* document text.
C15_WholeDocumentFallback ==
    pc \in {"unify", "done", "error"} =>
        /\ HasOutOfRange(instance11.report_template, instance11.report) =>
               ~convert_template_raises(instance11.report_template, instance11.report)
        /\ HasOutOfRange(instance11.source_template, instance11.source) =>
               ~convert_template_raises(instance11.source_template, instance11.source)
        /\ v11_data # None =>
               /\ FallbackOk(instance11.report_template, instance11.report,
                             v11_data.report.annotations)
               /\ FallbackOk(instance11.source_template, instance11.source,
                             v11_data.source.annotations)

\* every annotation's char span lies in the text
SpansInText(document) ==
    \A i \in 1..Len(document.annotations) :
        /\ 0 <= document.annotations[i].span[1]
        /\ document.annotations[i].span[1] <= document.annotations[i].span[2]
        /\ document.annotations[i].span[2] < Len(document.text)

\* C17 (as claimed; the code falls short of it): every annotation the template
\* normalization emits, for any tokens and any argument token indices, in
\* range or not, has a char span [start, end] with
\* 0 <= start <= end < len(document text).
C17_SpansInText ==
    v11_data # None => SpansInText(v11_data.report) /\ SpansInText(v11_data.source)

\* the trigger descriptor has both indices, one of them out of range
TriggerOutOfRange ==
    LET trigger_dict == Get(instance11, "trigger", <<>>)
    IN  /\ "start_token" \in DOMAIN trigger_dict
        /\ "end_token" \in DOMAIN trigger_dict
        /\ OutOfRange(Get(instance11, "report", <<>>),
                      trigger_dict.start_token, trigger_dict.end_token)

\* C18 (as claimed; the code falls short of it): normalizing a template
\* instance whose trigger descriptor has a start_token or end_token outside
\* the document's token sequence raises no error and returns a normalized
\* instance, so that the run goes on to the rest of the batch.
C18_TriggerNotFatal ==
    (/\ pc \in {"unify", "done", "error"}
     /\ TriggerOutOfRange
     /\ ~convert_template_raises(instance11.report_template, instance11.report)
     /\ ~convert_template_raises(instance11.source_template, instance11.source)) =>
        /\ pc # "error"
        /\ v11_data # None

\* C19 (as claimed; the code falls short of it): for the same document tokens
\* and the same out-of-range (start_token, end_token), the trigger and an
\* argument get the same outcome: both raise an error, or neither does and the
\* trigger's start_char and end_char are the argument's char span.
C19_SamePolicy ==
    (/\ pc \in {"unify", "done", "error"}
     /\ TriggerOutOfRange
     /\ OffsetArgument.start_token = instance11.trigger.start_token
     /\ OffsetArgument.end_token = instance11.trigger.end_token) =>
        LET argument_raises ==
                convert_template_raises(instance11.report_template, instance11.report)
            trigger_raises ==
                extract_trigger_11_raises(instance11.trigger, instance11.report)
        IN  /\ argument_raises <=> trigger_raises
            /\ v11_data # None =>
                   /\ v11_data.report.trigger.start_char =
                          Some(v11_data.report.annotations[1].span[1])
                   /\ v11_data.report.trigger.end_char =
                          Some(v11_data.report.annotations[1].span[2])

---------------------------------------------------------------------------
(* create_hierarchy_index as a function of the table; tables with descendants *)

\* the hierarchy dict after the loop has taken the first n frames
RECURSIVE hierarchy_after(_, _)
hierarchy_after(frames_, n) ==
    IF n = 0 THEN [roots |-> <<>>, children |-> <<>>, parents |-> <<>>]
    ELSE add_frame(hierarchy_after(frames_, n - 1), frames_[n][1], frames_[n][2])

create_hierarchy_index(frames_) == finalize(hierarchy_after(frames_, Len(frames_)))

\* 'descendants' lists: empty, or one name (the frame itself, another frame,
\* or a name that is not in the table)
DescendantLists == {<<>>} \cup {<<d>> : d \in TableNames \cup {"Z"}}

\* frame entries, roots or children of "A", whose 'descendants' need not
\* mirror any 'ancestors'
FrameDatasWithDescendants ==
    {[definition |-> "", ancestors |-> ancestors, descendants |-> descendants] :
        ancestors \in {<<>>, <<"A">>}, descendants \in DescendantLists}

DescendantTables ==
    {table \in SeqsUpTo(TableNames \X FrameDatasWithDescendants, MaxFrames) :
        \A i, j \in 1..Len(table) : i # j => table[i][1] # table[j][1]}

InitDescendants ==
    /\ pc = "hierarchy_loop"
    /\ frames \in DescendantTables
    /\ frame_pos = 0
    /\ hierarchy = [roots |-> <<>>, children |-> <<>>, parents |-> <<>>]
    /\ hierarchy_index = None
    /\ ontology = None /\ instance10 = None /\ instance11 = None
    /\ v10_data = None /\ v11_data = None
    /\ char_positions = None /\ trigger_positions = None /\ unified = None
    /\ lines10 = None /\ data11 = None /\ pos = 0
    /\ v10_instances = None /\ v11_instances = None
    /\ unified_instances = None /\ instances_with_differences = 0
    /\ metadata = None

SpecDescendants == InitDescendants /\ [][NextHierarchy]_vars

---------------------------------------------------------------------------
(* The hierarchy index as a function of the ancestors alone: C21, C22 *)

\* the tables with the frame names and the ancestors lists of the table, in
\* its order, and any descendants lists
SameAncestors ==
    {[i \in 1..Len(frames) |->
         <<frames[i][1], [frames[i][2] EXCEPT !.descendants = lists[i]]>>] :
        lists \in [1..Len(frames) -> DescendantLists]}

\* C21: the index create_hierarchy_index returns for a table is the index of
\* every table with the same frame names and the same ancestors lists and any
\* other descendants lists: roots, children and parents are identical.
C21_DescendantsUnused ==
    pc = "hierarchy_done" =>
        /\ hierarchy_index = create_hierarchy_index(frames)
        /\ \A other \in SameAncestors :
               LET other_index == create_hierarchy_index(other)
               IN  /\ other_index.roots = hierarchy_index.roots
                   /\ other_index.children = hierarchy_index.children
                   /\ other_index.parents = hierarchy_index.parents

\* the index of a table in which B has the ancestor A while A lists "Z" and B
\* lists A as their descendants
C21_Witness ==
    /\ pc = "hierarchy_done"
    /\ frames = << <<"A", [definition |-> "", ancestors |-> <<>>,
                          descendants |-> <<"Z">>]>>,
                   <<"B", [definition |-> "", ancestors |-> <<"A">>,
                          descendants |-> <<"A">>]>> >>
    /\ hierarchy_index = [roots    |-> <<"A">>,
                          children |-> ("A" :> <<"B">>),
                          parents  |-> ("B" :> <<"A">>)]

\* the place of a frame name in the order of sorted()
NameRank(name) == CHOOSE i \in 1..Len(NameOrder) : NameOrder[i] = name

\* sorted, and no name twice
StrictlyAscending(list) ==
    \A i, j \in 1..Len(list) : i < j => NameRank(list[i]) < NameRank(list[j])

\* the table's frames in every iteration order
IterationOrders ==
    {[i \in 1..Len(frames) |-> frames[order[i]]] :
        order \in {f \in [1..Len(frames) -> 1..Len(frames)] :
                      \A i, j \in 1..Len(frames) : i # j => f[i] # f[j]}}

\* C22: in the index create_hierarchy_index returns, roots and every list of
\* children and of parents is strictly ascending (sorted, no name twice), also
\* when an ancestors list repeats a name, and the index is the one returned
\* for every other order in which the table's frames are iterated.
C22_Deterministic ==
    pc = "hierarchy_done" =>
        /\ StrictlyAscending(hierarchy_index.roots)
        /\ \A k \in DOMAIN hierarchy_index.children :
               StrictlyAscending(hierarchy_index.children[k])
        /\ \A k \in DOMAIN hierarchy_index.parents :
               StrictlyAscending(hierarchy_index.parents[k])
        /\ \A other \in IterationOrders :
               create_hierarchy_index(other) = hierarchy_index

\* B, which lists "A" twice, is iterated before A: the children of A are
\* A and B in this order, and B has the one parent A
C22_Witness ==
    /\ pc = "hierarchy_done"
    /\ Len(frames) = 2
    /\ frames[1][1] = "B" /\ Get(frames[1][2], "ancestors", <<>>) = <<"A", "A">>
    /\ frames[2][1] = "A" /\ Get(frames[2][2], "ancestors", <<>>) = <<"A", "Z">>
    /\ hierarchy_index = [roots    |-> <<>>,
                          children |-> ("A" :> <<"A", "B">>) @@ ("Z" :> <<"A">>),
                          parents  |-> ("A" :> <<"A", "Z">>) @@ ("B" :> <<"A">>)]

\* two roots iterated in descending order are returned in ascending order
C22_RootsSorted ==
    /\ pc = "hierarchy_done"
    /\ Len(frames) = 2 /\ frames[1][1] = "B" /\ frames[2][1] = "A"
    /\ hierarchy_index.roots = <<"A", "B">>

---------------------------------------------------------------------------
(* main() over a corpus, the unify loop statement by statement *)

\* main(): the head of the unify loop, the lookup of the FAMuS 1.1 data and,
\* when there is one, the call of create_unified_instance; otherwise the
\* warning
CreateUnified ==
    /\ pc = "assemble"
    /\ IF pos < Len(v10_instances)
       THEN LET instance_id == v10_instances[pos + 1][1]
                v10_info    == v10_instances[pos + 1][2]
                v11         == Get(v11_instances, instance_id, None)
            IN  /\ v10_data' = v10_info.data
                /\ v11_data' = v11
                /\ IF v11 # None
                   THEN /\ unified' = create_unified_instance(
                                          instance_id, v10_info.frame,
                                          v10_info.data, v11, ontology)
                        /\ pc' = "created"
                        /\ pos' = pos
                   ELSE /\ pos' = pos + 1
                        /\ pc' = pc
                        /\ UNCHANGED unified
       ELSE /\ pc' = "report"
            /\ UNCHANGED <<pos, v10_data, v11_data, unified>>
    /\ UNCHANGED <<ontology, instance10, instance11, char_positions,
                   trigger_positions, lines10, data11, v10_instances, v11_instances,
                   unified_instances, instances_with_differences, metadata,
                   hierarchy_vars>>

\* main(): the split is set on the record, the record is appended to the
\* output list and counted
AppendUnified ==
    /\ pc = "created"
    /\ LET unified_ == set_split(unified, v10_instances[pos + 1][2].split)
       IN  /\ unified' = unified_
           /\ unified_instances' = Append(unified_instances, unified_)
           /\ instances_with_differences' =
                  count_differences(instances_with_differences, unified_)
    /\ pos' = pos + 1
    /\ pc' = "assemble"
    /\ UNCHANGED <<ontology, instance10, instance11, v10_data, v11_data,
                   char_positions, trigger_positions, lines10, data11,
                   v10_instances, v11_instances, metadata, hierarchy_vars>>

NextCorpusSteps == Load10 \/ Load11 \/ CreateUnified \/ AppendUnified \/ Report

SpecCorpusSteps == InitCorpus /\ [][NextCorpusSteps]_vars

---------------------------------------------------------------------------
(* The unified record after its creation: C23 *)

\* the step leaves `unified` bound to the record of the same instance pair
SameRecord ==
    /\ unified # None /\ unified' # None
    /\ unified'.instance_id = unified.instance_id

\* the records of the output list stay where and as they are
OutputKept ==
    \A i \in 1..Len(unified_instances) :
        /\ i <= Len(unified_instances')
        /\ unified_instances'[i] = unified_instances[i]

\* C23 (as claimed; it does not hold of the code): once create_unified_instance
\* has returned the record of an instance pair, no later step of the run adds,
\* removes or changes any of its fields, neither in the loop nor in the output
\* list.
C23_NeverMutated ==
    [][(SameRecord => unified' = unified) /\ OutputKept]_vars

\* C23 as amended: after create_unified_instance has returned the record of
\* an instance pair, the only change to it is that main() adds the field
\* split before appending it to the output list: no step removes or changes a
\* field create_unified_instance set, and once the record is in the output
\* list no later step adds, removes or changes any of its fields.
C23_OnlySplitAdded ==
    [][/\ SameRecord =>
              /\ \A k \in DOMAIN unified :
                     k \in DOMAIN unified' /\ unified'[k] = unified[k]
              /\ DOMAIN unified' \subseteq DOMAIN unified \cup {"split"}
       /\ OutputKept]_vars

\* the run has written its report after two records were created, given
\* their split and appended
C23_Witness ==
    /\ pc = "done"
    /\ Len(unified_instances) = 2
    /\ unified = unified_instances[2]
    /\ unified_instances[1].split = "train"
    /\ unified_instances[2].split = "test"
    /\ unified_instances[1].instance_id = "id1"
    /\ unified_instances[2].instance_id = "id2"

---------------------------------------------------------------------------
(* A missing FAMuS 1.1 counterpart: C24 *)

\* C24 (it does not hold of the code): a FAMuS 1.0 instance without a
\* FAMuS 1.1 counterpart never aborts the batch: for every pair of input
\* corpora, also one in which no 1.0 instance has a counterpart, the run skips
\* the unmatched instances and reaches its output-writing steps without an
\* error.
C24_SkipNotFatal == pc # "report_error"

---------------------------------------------------------------------------
(* The source trigger of the two versions: C25 *)

\* FAMuS 1.0 instances whose source 'frame-trigger-span' is missing, empty,
\* too short, of five or of six elements
SourceTriggerInstances10 ==
    LET Text(spans) ==
            [doctext |-> <<"a", " ", "b", "c">>,
             role_annotations |-> <<<<"Agent", spans>>>>]
        Dict(spans, trigger_spans) ==
            {Text(spans)}
            \cup {("frame-trigger-span" :> trigger_span) @@ Text(spans) :
                  trigger_span \in trigger_spans}
    IN  {[instance_id |-> "id1", frame |-> "Attack",
          report_dict |-> report_dict, source_dict |-> source_dict] :
            report_dict \in
                UNION {Dict(spans, {<<<<"a">>, 0, 0, 0, 0>>}) :
                          spans \in {<<>>, <<SpanA>>}},
            source_dict \in
                UNION {Dict(spans, {<<>>,
                                    <<<<"a">>, 0, 0, 0>>,
                                    <<<<"a">>, 0, 0, 0, 0>>,
                                    <<<<"a">>, 0, 0, 0, 0, "Attack">>}) :
                          spans \in {<<>>, <<SpanA>>}}}

InitSourceTrigger ==
    \E split \in Splits,
       inst10 \in SourceTriggerInstances10 \cup {[frame |-> "Attack"]},
       inst11 \in DiffInstances11 :
        Loaded(split, inst10, inst11, None)

SpecSourceTrigger == InitSourceTrigger /\ [][Next]_vars

\* the source 'frame-trigger-span' of the FAMuS 1.0 instance has five
\* elements or more
SourceTriggerTuple ==
    Len(Get(instance10.source_dict, "frame-trigger-span", <<>>)) >= 5

\* C25: process_famus_11_instance never yields a source trigger, so every
\* assembled pair whose FAMuS 1.0 source document has a trigger tuple of at
\* least 5 elements has has_differences true, however the annotations and the
\* report triggers compare.
C25_SourceTriggerDiffers ==
    /\ v11_data # None => v11_data.source.trigger = None
    /\ pc = "done" =>
           /\ unified.v1_1.source.trigger = None
           /\ SourceTriggerTuple => unified.has_differences

\* a pair that agrees on the annotations of both documents and on the report
\* trigger and has a FAMuS 1.0 source trigger
C25_Witness ==
    /\ pc = "done"
    /\ SourceTriggerTuple
    /\ unified.v1_0.source.trigger # None
    /\ \A doc \in {"report", "source"} :
           /\ Len(unified.v1_0[doc].annotations) = Len(unified.v1_1[doc].annotations)
           /\ Triples(unified.v1_0[doc]) = Triples(unified.v1_1[doc])
    /\ Len(unified.v1_0.report.annotations) = 1
    /\ unified.v1_0.report.trigger # None
    /\ SameTrigger(unified.v1_0.report, unified.v1_1.report)
    /\ unified.has_differences

\* a source trigger tuple of four elements is no trigger, and the pair has no
\* difference
C25_ShortTuple ==
    /\ pc = "done"
    /\ Len(Get(instance10.source_dict, "frame-trigger-span", <<>>)) = 4
    /\ ~unified.has_differences

====
